---- MODULE Spec2Model ----
(***************************************************************************)
(* Job aggregation service of mcp-jobboard: the page-by-page event stream, *)
(* batch aggregation with filtering and dedupe-merge, ATS enrichment under *)
(* two-level admission control, and single-URL parsing.                    *)
(*                                                                         *)
(* tools/jobs.py holds both sides of an unresolved merge: enrich_details    *)
(* and _get_domain_sem come from the HEAD side, search_jobs_stream and      *)
(* _compute_job_key from the other side, and _canonical_url is the other    *)
(* side's version (urlparse, with the regex cleanup as its fallback).       *)
(*                                                                         *)
(* SpecStream: one search_jobs_stream invocation.                           *)
(* SpecBatch:  one search_jobs call with its _run_source tasks.             *)
(* SpecEnrich: overlapping enrich_details calls on one service.             *)
(* SpecParse:  one parse_job_url call (services/job_service.py).            *)
(* SpecDedupe: _dedupe_jobs_merge_tags applied to a list and to its result. *)
(* SpecCanon:  _canonical_url applied to a URL and to its result.           *)
(* SpecRegistry: ParserRegistry.choose over the strategies' detect scores.  *)
(* SpecFilter: the filter tests and _location_match on one record.          *)
(* SpecSearch: the stream, the batch call and the filter tests together.    *)
(* SpecServiceSearch: search_jobs of services/job_service.py.               *)
(* SpecExits:  the stream, the batch call and parse_job_url together.       *)
(* SpecEnrichFair: single enrich_details calls under a fair event loop.     *)
(* SpecCache:  crawl and search_jobs calls over the crawler's TTL cache.    *)
(***************************************************************************)
EXTENDS Integers, Sequences, FiniteSets, TLC

(***************************************************************************)
(* Text.  A text is a sequence of one-character strings, so that str.lower, *)
(* str.strip, "in" (substring) and sorted() are computed, not assumed.      *)
(***************************************************************************)
T_Empty == << >>
T_Unknown == <<"U","n","k","n","o","w","n">>
T_JobPosting == <<"J","o","b"," ","P","o","s","t","i","n","g">>
T_UnknownCompany == <<"U","n","k","n","o","w","n"," ","C","o","m","p","a","n","y">>
T_RemoteUS == <<"R","e","m","o","t","e"," ","(","U","S",")">>
T_BerlinDE == <<"B","e","r","l","i","n",","," ","D","E">>
T_Dev == <<"D","e","v">>
T_Acme == <<"A","c","m","e">>
T_python == <<"p","y","t","h","o","n">>
T_PythonSp == <<" ","P","y","t","h","o","n"," ">>
T_go == <<"g","o">>
T_rust == <<"r","u","s","t">>
T_blank == <<" "," ">>
T_US == <<"U","S">>

UpperAlphabet ==
  <<"A","B","C","D","E","F","G","H","I","J","K","L","M","N","O","P","Q","R","S","T","U","V","W","X","Y","Z">>

LowerAlphabet ==
  <<"a","b","c","d","e","f","g","h","i","j","k","l","m","n","o","p","q","r","s","t","u","v","w","x","y","z">>

CodePointOrder ==
  <<" ","(",")",",","-",".","0","1","2","3","4","5","6","7","8","9","A","B","C","D","E","F","G","H","I","J","K","L","M","N","O","P","Q","R","S","T","U","V","W","X","Y","Z","_","a","b","c","d","e","f","g","h","i","j","k","l","m","n","o","p","q","r","s","t","u","v","w","x","y","z">>

Range(s) == { s[i] : i \in 1..Len(s) }

IndexOf(s, x) ==
  IF \E i \in 1..Len(s) : s[i] = x
  THEN CHOOSE i \in 1..Len(s) : s[i] = x /\ \A j \in 1..(i - 1) : s[j] # x
  ELSE 0

LowerChar(c) ==
  LET i == IndexOf(UpperAlphabet, c) IN IF i = 0 THEN c ELSE LowerAlphabet[i]

LowerS(s) == [ i \in 1..Len(s) |-> LowerChar(s[i]) ]

IsSpace(c) == c \in {" ", "\t", "\n"}

RECURSIVE LStrip(_)
LStrip(s) == IF s # << >> /\ IsSpace(Head(s)) THEN LStrip(Tail(s)) ELSE s

RECURSIVE RStrip(_)
RStrip(s) ==
  IF s # << >> /\ IsSpace(s[Len(s)]) THEN RStrip(SubSeq(s, 1, Len(s) - 1)) ELSE s

StripS(s) == RStrip(LStrip(s))

\* needle in hay
Contains(hay, needle) ==
  \E i \in 0..(Len(hay) - Len(needle)) : SubSeq(hay, i + 1, i + Len(needle)) = needle

RECURSIVE JoinWith(_, _)
JoinWith(parts, sep) ==
  IF parts = << >> THEN << >>
  ELSE IF Len(parts) = 1 THEN parts[1]
  ELSE parts[1] \o sep \o JoinWith(Tail(parts), sep)

CharCode(c) == IndexOf(CodePointOrder, c)

RECURSIVE LexLess(_, _)
LexLess(a, b) ==
  IF b = << >> THEN FALSE
  ELSE IF a = << >> THEN TRUE
  ELSE IF Head(a) = Head(b) THEN LexLess(Tail(a), Tail(b))
  ELSE CharCode(Head(a)) < CharCode(Head(b))

\* sorted(set(...)) of texts
RECURSIVE SortedSet(_)
SortedSet(S) ==
  IF S = {} THEN << >>
  ELSE LET m == CHOOSE x \in S : \A y \in S \ {x} : LexLess(x, y)
       IN <<m>> \o SortedSet(S \ {m})

(***************************************************************************)
(* URLs.  A URL is a sequence of lexical tokens: a scheme, "://", a host,   *)
(* a path, and the delimiters "?", "&", "=", "#" around query keys, values  *)
(* and the fragment.  << >> is the empty (or absent) URL.                   *)
(***************************************************************************)
U_GreenhousePlain ==
  <<"https", "://", "boards.greenhouse.io", "/acme/jobs/1">>

U_GreenhouseUtm ==
  <<"https", "://", "boards.greenhouse.io", "/acme/jobs/1", "?", "utm_source", "=", "hn">>

U_GreenhouseUpper ==
  <<"HTTPS", "://", "Boards.Greenhouse.io", "/acme/jobs/1", "#", "apply">>

U_Lever ==
  <<"https", "://", "jobs.lever.co", "/initech/42", "?", "lever-source", "=", "x", "&", "team", "=", "eng">>

U_Ashby ==
  <<"https", "://", "jobs.ashbyhq.com", "/acme/job", "?", "ashby_jid", "=", "123", "&", "utm_source", "=", "x">>

U_Example ==
  <<"https", "://", "example.com", "/careers/7">>

\* a netloc with an unbalanced bracket: urlparse raises ValueError
U_BadBracket ==
  <<"http", "://", "[jobs.lever.co", "/x", "?", "utm_source", "=", "hn">>

\* no scheme and no netloc: urlparse puts everything in the path
U_NoHost ==
  <<"/careers/7">>

LowerTok(t) ==
  CASE t = "HTTPS" -> "https"
    [] t = "Boards.Greenhouse.io" -> "boards.greenhouse.io"
    [] t = "UTM_Source" -> "utm_source"
    [] t = "Ref" -> "ref"
    [] OTHER -> t

IsPathTok(t) == t \in {"/acme/jobs/1", "/initech/42", "/acme/job", "/careers/7", "/x"}

IsBadNetloc(t) == t \in {"[jobs.lever.co"}

\* urllib.parse.unquote after replacing "+" by " "
UnquoteTok(t) ==
  CASE t = "a%20b" -> "a b"
    [] t = "a+b" -> "a b"
    [] t = "%2F" -> "/"
    [] OTHER -> t

\* urllib.parse.quote_plus
QuotePlusTok(t) ==
  CASE t = "a b" -> "a+b"
    [] t = "/" -> "%2F"
    [] t = "=" -> "%3D"
    [] t = "?" -> "%3F"
    [] OTHER -> t

\* the keys of the vocabulary that start with "utm_"
utm_keys == {"utm_source", "utm_medium", "utm_campaign"}

StartsWithUtm(t) == t \in utm_keys

drop_exact == {"gh_src", "ref", "source", "lever-source"}

RECURSIVE SplitOn(_, _)
SplitOn(s, sep) ==
  LET i == IndexOf(s, sep)
  IN IF i = 0 THEN <<s>>
     ELSE <<SubSeq(s, 1, i - 1)>> \o SplitOn(SubSeq(s, i + 1, Len(s)), sep)

UnquoteSeq(s) == [ i \in 1..Len(s) |-> UnquoteTok(s[i]) ]

QuotePlusSeq(s) == [ i \in 1..Len(s) |-> QuotePlusTok(s[i]) ]

\* urllib.parse.urlparse: fragment first, then query, then scheme and netloc
urlparse(u) ==
  LET f == IndexOf(u, "#")
      noFrag == IF f = 0 THEN u ELSE SubSeq(u, 1, f - 1)
      q == IndexOf(noFrag, "?")
      head == IF q = 0 THEN noFrag ELSE SubSeq(noFrag, 1, q - 1)
      hasScheme == Len(head) >= 2 /\ head[2] = "://"
      rest == IF hasScheme THEN SubSeq(head, 3, Len(head)) ELSE head
      hasNetloc == hasScheme /\ rest # << >> /\ ~IsPathTok(rest[1])
  IN [ raises |-> hasNetloc /\ IsBadNetloc(rest[1]),
       scheme |-> IF hasScheme THEN LowerTok(head[1]) ELSE "",
       netloc |-> IF hasNetloc THEN rest[1] ELSE "",
       path |-> IF hasNetloc THEN Tail(rest) ELSE rest,
       query |-> IF q = 0 THEN << >> ELSE SubSeq(noFrag, q + 1, Len(noFrag)),
       fragment |-> IF f = 0 THEN << >> ELSE SubSeq(u, f + 1, Len(u)) ]

\* urllib.parse.parse_qsl(query, keep_blank_values=False)
RECURSIVE PairsOf(_)
PairsOf(segs) ==
  IF segs = << >> THEN << >>
  ELSE LET seg == Head(segs)
           e == IndexOf(seg, "=")
           v == SubSeq(seg, e + 1, Len(seg))
       IN IF seg = << >> \/ e = 0 \/ v = << >>
          THEN PairsOf(Tail(segs))
          ELSE << [ k |-> UnquoteSeq(SubSeq(seg, 1, e - 1)),
                    v |-> UnquoteSeq(v) ] >> \o PairsOf(Tail(segs))

parse_qsl(query) == PairsOf(SplitOn(query, "&"))

IsTrackingKey(k) ==
  /\ Len(k) = 1
  /\ \/ StartsWithUtm(LowerTok(k[1]))
     \/ LowerTok(k[1]) \in drop_exact

\* urllib.parse.urlencode(kept, doseq=True)
RECURSIVE urlencode(_)
urlencode(pairs) ==
  IF pairs = << >> THEN << >>
  ELSE LET p == Head(pairs)
           one == QuotePlusSeq(p.k) \o <<"=">> \o QuotePlusSeq(p.v)
       IN IF Len(pairs) = 1 THEN one ELSE one \o <<"&">> \o urlencode(Tail(pairs))

\* urllib.parse.urlunparse((scheme, netloc, path, "", query, ""))
urlunparse(scheme, netloc, path, query) ==
  (IF scheme # "" THEN <<scheme, "://">> ELSE << >>)
    \o (IF netloc # "" THEN <<netloc>> ELSE << >>)
    \o path
    \o (IF query # << >> THEN <<"?">> \o query ELSE << >>)

\* the regex fallback of _canonical_url, on tokens
fallback_keys == {"gh_src", "ref", "source", "lever-source", "ashby_jid", "ashby_src"}

RECURSIVE SkipNotAmp(_, _)
SkipNotAmp(u, p) == IF p <= Len(u) /\ u[p] # "&" THEN SkipNotAmp(u, p + 1) ELSE p

\* end (exclusive) of one group key=[^&]*&? starting at p, or 0 if none starts there
GroupEnd(u, p, keys) ==
  IF p + 1 <= Len(u) /\ LowerTok(u[p]) \in keys /\ u[p + 1] = "="
  THEN LET e == SkipNotAmp(u, p + 2) IN IF e <= Len(u) THEN e + 1 ELSE e
  ELSE 0

RECURSIVE GroupsEnd(_, _, _)
GroupsEnd(u, p, keys) ==
  LET e == GroupEnd(u, p, keys) IN IF e = 0 THEN p ELSE GroupsEnd(u, e, keys)

\* re.sub(r"[?#](utm_[^=&]+=[^&]*&?)+", "", u, flags=re.I)
RECURSIVE SubUtm(_)
SubUtm(u) ==
  IF u = << >> THEN << >>
  ELSE IF Head(u) \in {"?", "#"} /\ GroupEnd(u, 2, utm_keys) # 0
       THEN SubUtm(SubSeq(u, GroupsEnd(u, 2, utm_keys), Len(u)))
       ELSE <<Head(u)>> \o SubUtm(Tail(u))

\* re.sub(r"[?#](gh_src|ref|source|lever-source|ashby_jid|ashby_src)=[^&]*&?", "?", u, flags=re.I)
RECURSIVE SubTracking(_)
SubTracking(u) ==
  IF u = << >> THEN << >>
  ELSE IF Head(u) \in {"?", "#"} /\ GroupEnd(u, 2, fallback_keys) # 0
       THEN <<"?">> \o SubTracking(SubSeq(u, GroupEnd(u, 2, fallback_keys), Len(u)))
       ELSE <<Head(u)>> \o SubTracking(Tail(u))

\* re.sub(r"\?&+$", "?", u)
RECURSIVE DropTrailingAmps(_)
DropTrailingAmps(u) ==
  IF u # << >> /\ u[Len(u)] = "&" THEN DropTrailingAmps(SubSeq(u, 1, Len(u) - 1)) ELSE u

SubTrailingAmps(u) ==
  LET d == DropTrailingAmps(u)
  IN IF d # u /\ d # << >> /\ d[Len(d)] = "?" THEN d ELSE u

\* re.sub(r"[?#]$", "", u)
SubTrailingDelim(u) ==
  IF u # << >> /\ u[Len(u)] \in {"?", "#"} THEN SubSeq(u, 1, Len(u) - 1) ELSE u

RegexCleanup(u) == SubTrailingDelim(SubTrailingAmps(SubTracking(SubUtm(u))))

KeptParams(pairs) == SelectSeq(pairs, LAMBDA p : ~IsTrackingKey(p.k))

canonical_url(url) ==
  IF url = << >> THEN << >>
  ELSE LET parsed == urlparse(url)
       IN IF parsed.raises THEN RegexCleanup(url)
          ELSE urlunparse(parsed.scheme, LowerTok(parsed.netloc), parsed.path,
                          urlencode(KeptParams(parse_qsl(parsed.query))))

(***************************************************************************)
(* JobPosting (models/job.py).  description and salary are opaque strings;  *)
(* "" stands for an empty description and for salary None.                  *)
(***************************************************************************)
generate_fallback_id(job_data) ==
  IF job_data.url # << >> THEN <<"job", job_data.url>>
  ELSE <<"job", job_data.title, job_data.company>>

\* the dataclass constructor followed by __post_init__
JobPosting(f) ==
  LET a == [f EXCEPT !.title = IF @ = T_Empty THEN T_JobPosting ELSE @,
                     !.company = IF @ = T_Empty THEN T_UnknownCompany ELSE @,
                     !.source = IF @ = "" THEN "Unknown" ELSE @]
  IN [a EXCEPT !.id = IF @ = << >> THEN generate_fallback_id(a) ELSE @]

\* description.strip() is empty
DescBlank(d) == d \in {"", "  "}

(***************************************************************************)
(* The crawlers are external collaborators: a crawl returns one of the     *)
(* lists below or raises.  Each crawler stamps its own source label.       *)
(***************************************************************************)
SOURCE_MAP == {"hackernews_jobs", "ycombinator", "workatastartup"}

hnA ==
  JobPosting([id |-> << >>, source |-> "Hacker News Jobs", source_key |-> "hackernews_jobs",
              url |-> U_GreenhouseUtm, title |-> T_Dev, company |-> T_Acme,
              location |-> T_RemoteUS, description |-> "", salary |-> "",
              remote_ok |-> TRUE, tags |-> <<T_python>>])

hnB ==
  JobPosting([id |-> << >>, source |-> "Hacker News Jobs", source_key |-> "hackernews_jobs",
              url |-> U_Lever, title |-> T_Empty, company |-> T_Empty,
              location |-> T_BerlinDE, description |-> "short", salary |-> "",
              remote_ok |-> FALSE, tags |-> <<T_go>>])

ycA ==
  JobPosting([id |-> << >>, source |-> "Y Combinator", source_key |-> "",
              url |-> U_GreenhousePlain, title |-> T_Dev, company |-> T_Unknown,
              location |-> T_Unknown, description |-> "  ", salary |-> "",
              remote_ok |-> FALSE, tags |-> <<T_rust>>])

ycB ==
  JobPosting([id |-> << >>, source |-> "Y Combinator", source_key |-> "",
              url |-> U_GreenhouseUpper, title |-> T_Dev, company |-> T_Acme,
              location |-> T_RemoteUS, description |-> "", salary |-> "120k",
              remote_ok |-> TRUE, tags |-> <<T_PythonSp, T_rust>>])

waA ==
  JobPosting([id |-> << >>, source |-> "Work at a Startup", source_key |-> "",
              url |-> U_Ashby, title |-> T_Dev, company |-> T_Acme,
              location |-> T_BerlinDE, description |-> "", salary |-> "",
              remote_ok |-> FALSE, tags |-> << >>])

waBad ==
  JobPosting([id |-> << >>, source |-> "Work at a Startup", source_key |-> "",
              url |-> U_BadBracket, title |-> T_Dev, company |-> T_Acme,
              location |-> T_RemoteUS, description |-> "", salary |-> "",
              remote_ok |-> TRUE, tags |-> <<T_python>>])

CrawlLists(key) ==
  CASE key = "hackernews_jobs" -> { << >>, <<hnA>>, <<hnA, hnB>> }
    [] key = "ycombinator" -> { <<ycA>>, <<ycA, ycB>>, <<ycB, ycA>> }
    [] key = "workatastartup" -> { <<waA>>, <<waBad, waA>> }
    [] OTHER -> {}

(***************************************************************************)
(* Filters                                                                 *)
(***************************************************************************)
aliases ==
  <<
     [k |-> <<"u","n","i","t","e","d"," ","s","t","a","t","e","s">>,
      vals |-> {<<"u","n","i","t","e","d"," ","s","t","a","t","e","s">>,
               <<"u","s">>,
               <<"u","s","a">>,
               <<"u",".","s",".">>,
               <<"u",".","s",".","a">>,
               <<"u","s","-","b","a","s","e","d">>,
               <<"u","s"," ","r","e","m","o","t","e">>,
               <<"r","e","m","o","t","e","-","u","s">>,
               <<"a","n","y","w","h","e","r","e"," ","i","n"," ","t","h","e"," ","u","s">>}],
     [k |-> <<"u","n","i","t","e","d"," ","k","i","n","g","d","o","m">>,
      vals |-> {<<"u","n","i","t","e","d"," ","k","i","n","g","d","o","m">>,
               <<"u","k">>,
               <<"u",".","k",".">>,
               <<"b","r","i","t","a","i","n">>,
               <<"e","n","g","l","a","n","d">>,
               <<"s","c","o","t","l","a","n","d">>,
               <<"w","a","l","e","s">>}],
     [k |-> <<"e","u","r","o","p","e">>,
      vals |-> {<<"e","u","r","o","p","e">>,
               <<"e","u">>,
               <<"e",".","u",".">>,
               <<"e","u","r","o","p","e","a","n">>}],
     [k |-> <<"c","a","n","a","d","a">>,
      vals |-> {<<"c","a","n","a","d","a">>,
               <<"c","a">>,
               <<"c","a","n","a","d","i","a","n">>}],
     [k |-> <<"r","e","m","o","t","e">>,
      vals |-> {<<"r","e","m","o","t","e">>,
               <<"a","n","y","w","h","e","r","e">>,
               <<"d","i","s","t","r","i","b","u","t","e","d">>,
               <<"w","o","r","k"," ","f","r","o","m"," ","h","o","m","e">>,
               <<"w","f","h">>}],
     [k |-> <<"s","a","n"," ","f","r","a","n","c","i","s","c","o">>,
      vals |-> {<<"s","a","n"," ","f","r","a","n","c","i","s","c","o">>,
               <<"s","f">>,
               <<"b","a","y"," ","a","r","e","a">>}],
     [k |-> <<"n","e","w"," ","y","o","r","k">>,
      vals |-> {<<"n","e","w"," ","y","o","r","k">>,
               <<"n","y">>,
               <<"n","y","c">>}]
  >>

StripLowerSeq(tags) == [ i \in 1..Len(tags) |-> LowerS(StripS(tags[i])) ]

\* [t.strip().lower() for t in tags if t and t.strip()]
normalize_tags(tags) ==
  StripLowerSeq(SelectSeq(tags, LAMBDA t : t # T_Empty /\ StripS(t) # T_Empty))

has_required_tags(job, req_tags_norm) ==
  LET job_tags == normalize_tags(job.tags)
  IN \A i \in 1..Len(req_tags_norm) : req_tags_norm[i] \in Range(job_tags)

want_set(want_norm) ==
  {want_norm}
    \cup UNION { aliases[i].vals \cup {aliases[i].k} :
                 i \in { n \in 1..Len(aliases) :
                         want_norm = aliases[n].k \/ want_norm \in aliases[n].vals } }

location_match(job, want) ==
  IF want = T_Empty THEN TRUE
  ELSE LET want_norm == LowerS(StripS(want))
       IN IF want_norm = T_Empty THEN TRUE
          ELSE LET blob_parts == <<job.location, job.title, job.company>> \o job.tags
                   blob == LowerS(JoinWith(blob_parts, <<" ">>))
               IN \E alias \in want_set(want_norm) : Contains(blob, alias)

\* a variant of FilterKeeps without the remote_only test
FilterKeepsIgnoresRemote(j, remote_only, location, req_tags_norm) ==
  /\ ~(location # T_Empty /\ ~location_match(j, location))
  /\ ~(req_tags_norm # << >> /\ ~has_required_tags(j, req_tags_norm))

\* the three filter tests of search_jobs and search_jobs_stream
FilterKeeps(j, remote_only, location, req_tags_norm) ==
  /\ ~(remote_only /\ ~j.remote_ok)
  /\ ~(location # T_Empty /\ ~location_match(j, location))
  /\ ~(req_tags_norm # << >> /\ ~has_required_tags(j, req_tags_norm))

(***************************************************************************)
(* Dedupe and merge                                                        *)
(***************************************************************************)
DedupeKey(j) == <<j.source, canonical_url(j.url)>>

\* a variant of MergeDuplicate that overwrites the kept record's tags and remote flag
MergeDuplicateOverwrites(keep, j) ==
  [keep EXCEPT !.tags = SortedSet(Range(j.tags)), !.remote_ok = j.remote_ok]

MergeDuplicate(keep, j) ==
  [keep EXCEPT
     !.tags = SortedSet(Range(keep.tags) \cup Range(j.tags)),
     !.remote_ok = keep.remote_ok \/ j.remote_ok,
     !.location = IF keep.location \in {T_Empty, T_Unknown}
                     /\ j.location # T_Empty /\ j.location # T_Unknown
                  THEN j.location ELSE @,
     !.company = IF keep.company \in {T_Empty, T_Unknown}
                    /\ j.company # T_Empty /\ j.company # T_Unknown
                 THEN j.company ELSE @]

\* seen[key]: the position in out of the first record with this key, 0 when absent
SeenIndex(seen, key) ==
  IF \E i \in 1..Len(seen) : seen[i] = key
  THEN CHOOSE i \in 1..Len(seen) : seen[i] = key
  ELSE 0

RECURSIVE DedupeLoopForgets(_, _, _)
\* a variant of DedupeLoop that forgets a key once a duplicate was merged into it
DedupeLoopForgets(jobs, seen, out) ==
  IF jobs = << >> THEN out
  ELSE LET j == Head(jobs)
           key == DedupeKey(j)
           idx == SeenIndex(seen, key)
       IN IF idx # 0
          THEN DedupeLoopForgets(Tail(jobs), [seen EXCEPT ![idx] = << >>],
                                 [out EXCEPT ![idx] = MergeDuplicate(out[idx], j)])
          ELSE DedupeLoopForgets(Tail(jobs), Append(seen, key), Append(out, j))

RECURSIVE DedupeLoopKeepsLast(_, _, _)
\* a variant of DedupeLoop that keeps the duplicate and merges the record kept so
\* far into it
DedupeLoopKeepsLast(jobs, seen, out) ==
  IF jobs = << >> THEN out
  ELSE LET j == Head(jobs)
           key == DedupeKey(j)
           idx == SeenIndex(seen, key)
       IN IF idx # 0
          THEN DedupeLoopKeepsLast(Tail(jobs), seen,
                                   [out EXCEPT ![idx] = MergeDuplicate(j, out[idx])])
          ELSE DedupeLoopKeepsLast(Tail(jobs), Append(seen, key), Append(out, j))

RECURSIVE DedupeLoop(_, _, _)
\* seen holds the key of out[i] at position i: every appended record adds its key
DedupeLoop(jobs, seen, out) ==
  IF jobs = << >> THEN out
  ELSE LET j == Head(jobs)
           key == DedupeKey(j)
           idx == SeenIndex(seen, key)
       IN IF idx # 0
          THEN DedupeLoop(Tail(jobs), seen,
                          [out EXCEPT ![idx] = MergeDuplicate(out[idx], j)])
          ELSE DedupeLoop(Tail(jobs), Append(seen, key), Append(out, j))

dedupe_jobs_merge_tags(jobs) == DedupeLoop(jobs, << >>, << >>)

(***************************************************************************)
(* ATS enrichment handlers.  A fetched page is described by what a handler  *)
(* reads from it: whether a content container is found and its collapsed    *)
(* text, the salary line, whether the page mentions remote work, and        *)
(* whether parsing it raises.                                               *)
(***************************************************************************)
ATS_HANDLER(domain) ==
  CASE domain \in {"jobs.ashbyhq.com", "www.ashbyhq.com"} -> "parse_ashby"
    [] domain = "boards.greenhouse.io" -> "parse_greenhouse"
    [] domain = "jobs.lever.co" -> "parse_lever"
    [] domain = "www.workatastartup.com" -> "parse_workatastartup"
    [] domain = "deepnote.com" -> "parse_deepnote"
    [] OTHER -> "none"

\* get_text returned None (or ""): a failed fetch, a non-200 answer
NoContent ==
  [ present |-> FALSE, node |-> FALSE, text |-> "", salary |-> "", remote |-> FALSE,
    raises |-> FALSE ]

HtmlDocs ==
  { [ present |-> TRUE, node |-> TRUE, text |-> "full description", salary |-> "150k",
      remote |-> TRUE, raises |-> FALSE ],
    [ present |-> TRUE, node |-> FALSE, text |-> "", salary |-> "", remote |-> FALSE,
      raises |-> FALSE ],
    [ present |-> TRUE, node |-> TRUE, text |-> "", salary |-> "", remote |-> FALSE,
      raises |-> TRUE ] }

\* parse_ashby, parse_greenhouse, parse_lever, parse_workatastartup, parse_deepnote
ApplyHandler(handler, job, html) ==
  CASE handler = "parse_ashby" ->
         [job EXCEPT
            !.description = IF html.node /\ html.text # "" THEN html.text ELSE @,
            !.salary = IF html.salary # "" /\ @ = "" THEN html.salary ELSE @,
            !.remote_ok = @ \/ html.remote]
    [] handler \in {"parse_greenhouse", "parse_lever"} ->
         [job EXCEPT
            !.description = IF html.node THEN html.text ELSE @,
            !.salary = IF html.salary # "" /\ @ = "" THEN html.salary ELSE @,
            !.remote_ok = @ \/ html.remote]
    [] OTHER ->
         [job EXCEPT
            !.description = IF html.node THEN html.text ELSE @,
            !.remote_ok = IF html.remote THEN TRUE ELSE @]

\* enrich_one returns the job at once: no URL, or a non-blank description
EnrichSkips(job) == job.url = << >> \/ ~DescBlank(job.description)

\* urlparse(job.url) raises inside enrich_one, outside any try
EnrichRaises(job) == ~EnrichSkips(job) /\ urlparse(job.url).raises

EnrichDomain(job) == LowerTok(urlparse(job.url).netloc)

EnrichHandler(job) == ATS_HANDLER(EnrichDomain(job))

\* the task goes on to the semaphores and the fetch
EnrichFetches(job) ==
  ~EnrichSkips(job) /\ ~EnrichRaises(job) /\ EnrichHandler(job) # "none"

\* every answer a fetch can get
AnyPage == HtmlDocs \cup {NoContent}

\* fetch_html: a crawler session is needed; get_text returns text or None.  pages are
\* the answers the fetched sites give
FetchOutcomes(insts, pages) == IF insts = {} THEN {NoContent} ELSE pages

\* what enrich_one returns once the fetch has returned html
AfterFetch(job, html) ==
  IF ~html.present \/ html.raises THEN job
  ELSE ApplyHandler(EnrichHandler(job), job, html)

(***************************************************************************)
(* State                                                                   *)
(***************************************************************************)
VARIABLES
  instances,      \* JobService._instances: the source keys with a crawler instance
  s_args,         \* search_jobs_stream: the arguments of the invocation
  s_frame,        \* search_jobs_stream: the generator's position and locals
  events,         \* search_jobs_stream: the events yielded so far
  b_args,         \* search_jobs: the arguments of the call
  b_tasks,        \* search_jobs: one _run_source task per requested source
  b_frame,        \* search_jobs: the call's position, locals and outcome
  e_calls,        \* enrich_details: the position of each call on the service
  e_tasks,        \* enrich_details: one enrich_one task per record of each call
  e_global,       \* JobService._global_sem
  e_domain,       \* JobService._domain_semaphores
  p_args,         \* parse_job_url: the URL and what the network and parsers do with it
  p_frame,        \* parse_job_url: the call's position and outcome
  f_in,           \* a helper function applied on its own: the function and its input
  f_out           \* a helper function applied on its own: what it returned

streamVars == <<s_args, s_frame, events>>

batchVars == <<b_args, b_tasks, b_frame>>

enrichVars == <<e_calls, e_tasks, e_global, e_domain>>

parseVars == <<p_args, p_frame>>

fnVars == <<f_in, f_out>>

\* the bound on max_pages
MaxPages == 2

\* [s.lower().strip() for s in sources]
NormSource(s) ==
  CASE s = " YCombinator " -> "ycombinator"
    [] s = "  " -> ""
    [] OTHER -> s

SourceLists ==
  { << >>,
    <<"hackernews_jobs">>,
    <<"hackernews_jobs", " YCombinator ">>,
    <<"nosuch", "ycombinator">>,
    <<"ycombinator", "nosuch">>,
    <<"  ", "workatastartup">>,
    <<"ycombinator", "ycombinator">> }

\* location, remote_only, tags
FilterChoices ==
  { [location |-> T_Empty, remote_only |-> FALSE, tags |-> << >>],
    [location |-> T_Empty, remote_only |-> TRUE, tags |-> << >>],
    [location |-> T_US, remote_only |-> FALSE, tags |-> <<T_PythonSp, T_blank>>] }

PerSourceLimits == {0, 1, 2}

\* JobService._get_instance
get_instance_raises(key) == key \notin SOURCE_MAP

get_instance(insts, key) == insts \cup {key}

\* no search_jobs_stream invocation on the service
StreamIdle ==
  /\ s_args = [ sources |-> << >> ] /\ s_frame = [ pc |-> "idle" ] /\ events = << >>

\* no search_jobs call on the service
BatchIdle ==
  /\ b_args = [ sources |-> << >> ] /\ b_tasks = << >> /\ b_frame = [ pc |-> "idle" ]

\* self._global_sem = asyncio.Semaphore(10)
GlobalCap == 10

\* self._domain_semaphores[dom] = asyncio.Semaphore(4)
DomainCap == 4

\* asyncio.Semaphore: the counter and the queue of waiting futures
Semaphore(n) == [ value |-> n, waiters |-> << >> ]

\* Semaphore.locked
locked(s) == s.value = 0 \/ s.waiters # << >>

\* the first waiter whose future is not done, 0 if there is none
FirstPending(s) ==
  IF \E i \in DOMAIN s.waiters : ~s.waiters[i].done
  THEN CHOOSE i \in DOMAIN s.waiters :
         ~s.waiters[i].done /\ \A k \in 1..(i - 1) : s.waiters[k].done
  ELSE 0

\* Semaphore._wake_up_next: the permit is handed to the first pending waiter
wake_up_next(s) ==
  IF FirstPending(s) = 0 THEN s
  ELSE [s EXCEPT !.value = @ - 1, !.waiters[FirstPending(s)].done = TRUE]

\* Semaphore.release
release(s) == wake_up_next([s EXCEPT !.value = @ + 1])

\* Semaphore.acquire on a locked semaphore: append a future and await it
enqueue(s, t) == [s EXCEPT !.waiters = Append(@, [ task |-> t, done |-> FALSE ])]

\* the future of task t has been set: acquire may resume
Granted(s, t) == \E i \in DOMAIN s.waiters : s.waiters[i].task = t /\ s.waiters[i].done

\* Semaphore.acquire after the await: remove the future, pass a spare permit on
resume(s, t) ==
  LET r == [s EXCEPT !.waiters = SelectSeq(@, LAMBDA w : w.task # t)]
  IN IF r.value > 0 THEN wake_up_next(r) ELSE r

\* self._domain_semaphores = {}
NoDomainSemaphores == [ d \in {} |-> Semaphore(DomainCap) ]

\* no enrich_details call on the service
EnrichIdle ==
  /\ e_calls = << >> /\ e_tasks = << >> /\ e_global = Semaphore(GlobalCap)
  /\ e_domain = NoDomainSemaphores

\* no helper function is applied on its own
FnIdle == f_in = [ fn |-> "none" ] /\ f_out = [ pc |-> "idle" ]

\* no parse_job_url call
ParseIdle ==
  /\ p_args = [ url |-> << >> ] /\ p_frame = [ pc |-> "idle" ]

(***************************************************************************)
(* search_jobs_stream                                                      *)
(***************************************************************************)
\* [s.lower().strip() for s in sources if s and s.strip()]
StreamRequestedSources(sources) ==
  LET kept == SelectSeq(sources, LAMBDA s : s # "" /\ NormSource(s) # "")
  IN [ i \in 1..Len(kept) |-> NormSource(kept[i]) ]

requested_sources == StreamRequestedSources(s_args.sources)

req_tags_norm == normalize_tags(s_args.filter.tags)

src == requested_sources[s_frame.src_i]

\* all_upto_page[start_idx:end_idx]
PageSlice(all_upto_page, page, per_source_limit) ==
  LET size == IF per_source_limit # 0 THEN per_source_limit ELSE 50
      start_idx == (page - 1) * size
  IN SubSeq(all_upto_page, start_idx + 1,
            IF start_idx + size < Len(all_upto_page) THEN start_idx + size
            ELSE Len(all_upto_page))

Yield(e) == events' = Append(events, e)

InitFrame ==
  [ pc |-> "start", src_i |-> 0, page |-> 0, attempt |-> 0, page_jobs |-> << >>,
    emitted_count |-> 0, total_jobs |-> 0, total_pages |-> 0,
    source_total |-> 0, pages_emitted |-> 0, message |-> "" ]

StreamInit ==
  /\ instances \in {{}, {"ycombinator"}}
  /\ s_args \in [ sources : SourceLists, filter : FilterChoices,
                  max_pages : 0..MaxPages, per_source_limit : PerSourceLimits ]
  /\ s_frame = InitFrame
  /\ events = << >>
  /\ BatchIdle /\ EnrichIdle /\ ParseIdle /\ FnIdle

\* yield start; for src in requested_sources
StreamStart ==
  /\ s_frame.pc = "start"
  /\ Yield([ type |-> "start", sources |-> requested_sources,
             max_pages |-> s_args.max_pages,
             per_source_limit |-> s_args.per_source_limit ])
  /\ s_frame' = [s_frame EXCEPT
        !.pc = IF requested_sources = << >> THEN "complete" ELSE "source_start",
        !.src_i = 1]
  /\ UNCHANGED <<instances, s_args, batchVars, enrichVars, parseVars, fnVars>>

\* a variant of SourceStart that carries the counters of the source before on
SourceStartKeepsCounters ==
  /\ s_frame.pc = "source_start"
  /\ Yield([ type |-> "source_start", source |-> src ])
  /\ s_frame' = [s_frame EXCEPT !.pc = "get_instance"]
  /\ UNCHANGED <<instances, s_args, batchVars, enrichVars, parseVars, fnVars>>

\* yield source_start
SourceStart ==
  /\ s_frame.pc = "source_start"
  /\ Yield([ type |-> "source_start", source |-> src ])
  /\ s_frame' = [s_frame EXCEPT !.pc = "get_instance",
                                !.source_total = 0, !.pages_emitted = 0]
  /\ UNCHANGED <<instances, s_args, batchVars, enrichVars, parseVars, fnVars>>

\* a variant of NextPagePc in which the page loop runs one page past max_pages
NextPagePcOffByOne(p) ==
  IF p <= s_args.max_pages + 1 THEN "page_start" ELSE "source_complete"

\* where the page loop goes from page p: the next page_start, or source_complete
NextPagePc(p) == IF p <= s_args.max_pages THEN "page_start" ELSE "source_complete"

\* inst = self._get_instance(src), outside any try: an unknown source ends
\* the generator with ValueError
GetInstance ==
  /\ s_frame.pc = "get_instance"
  /\ IF get_instance_raises(src)
     THEN /\ s_frame' = [s_frame EXCEPT !.pc = "raised", !.message = "Unknown source"]
          /\ UNCHANGED <<instances, batchVars, enrichVars, parseVars, fnVars>>
     ELSE /\ instances' = get_instance(instances, src)
          /\ s_frame' = [s_frame EXCEPT !.pc = NextPagePc(1), !.page = 1]
  /\ UNCHANGED <<s_args, events, batchVars, enrichVars, parseVars, fnVars>>

\* yield page_start
PageStart ==
  /\ s_frame.pc = "page_start"
  /\ Yield([ type |-> "page_start", source |-> src, page |-> s_frame.page ])
  /\ s_frame' = [s_frame EXCEPT !.pc = "crawl", !.attempt = 1,
                                !.pages_emitted = @ + 1, !.total_pages = @ + 1,
                                !.page_jobs = << >>]
  /\ UNCHANGED <<instances, s_args, batchVars, enrichVars, parseVars, fnVars>>

\* inst.crawl(...) returns (no crawler has crawl_page): slice out this page
CrawlReturns ==
  /\ s_frame.pc = "crawl"
  /\ \E all_upto_page \in CrawlLists(src) :
       s_frame' = [s_frame EXCEPT
          !.pc = "jobs", !.emitted_count = 0,
          !.page_jobs = PageSlice(all_upto_page, s_frame.page, s_args.per_source_limit)]
  /\ UNCHANGED <<instances, s_args, events, batchVars, enrichVars, parseVars, fnVars>>

\* inst.crawl(...) raises TypeError: retried with fewer arguments, twice
CrawlTypeError ==
  /\ s_frame.pc = "crawl"
  /\ s_frame' = IF s_frame.attempt < 3
                THEN [s_frame EXCEPT !.attempt = @ + 1]
                ELSE [s_frame EXCEPT !.pc = "error", !.message = "TypeError"]
  /\ UNCHANGED <<instances, s_args, events, batchVars, enrichVars, parseVars, fnVars>>

\* inst.crawl(...) raises anything else
CrawlRaises ==
  /\ s_frame.pc = "crawl"
  /\ s_frame' = [s_frame EXCEPT !.pc = "error", !.message = "fetch failed"]
  /\ UNCHANGED <<instances, s_args, events, batchVars, enrichVars, parseVars, fnVars>>

\* except Exception: yield error
EmitError ==
  /\ s_frame.pc = "error"
  /\ Yield([ type |-> "error", message |-> s_frame.message,
             source |-> src, page |-> s_frame.page ])
  /\ s_frame' = [s_frame EXCEPT !.pc = "error_page_complete"]
  /\ UNCHANGED <<instances, s_args, batchVars, enrichVars, parseVars, fnVars>>

\* a variant of ErrorPageComplete in which a failed page ends the source's pagination
ErrorPageCompleteBreaks ==
  /\ s_frame.pc = "error_page_complete"
  /\ Yield([ type |-> "page_complete", source |-> src, page |-> s_frame.page, count |-> 0 ])
  /\ s_frame' = [s_frame EXCEPT !.pc = "source_complete"]
  /\ UNCHANGED <<instances, s_args, batchVars, enrichVars, parseVars, fnVars>>

\* ... yield page_complete with count 0; continue
ErrorPageComplete ==
  /\ s_frame.pc = "error_page_complete"
  /\ Yield([ type |-> "page_complete", source |-> src, page |-> s_frame.page, count |-> 0 ])
  /\ s_frame' = [s_frame EXCEPT !.pc = NextPagePc(s_frame.page + 1), !.page = @ + 1]
  /\ UNCHANGED <<instances, s_args, batchVars, enrichVars, parseVars, fnVars>>

StreamKeeps(j) ==
  FilterKeeps(j, s_args.filter.remote_only, s_args.filter.location, req_tags_norm)

\* for j in page_jobs: a filtered-out record is skipped
SkipJob ==
  /\ s_frame.pc = "jobs"
  /\ s_frame.page_jobs # << >>
  /\ ~StreamKeeps(Head(s_frame.page_jobs))
  /\ s_frame' = [s_frame EXCEPT !.page_jobs = Tail(@)]
  /\ UNCHANGED <<instances, s_args, events, batchVars, enrichVars, parseVars, fnVars>>

\* the key of a job event: source and canonical URL (the records carry no
\* external_id or posting_id)
compute_job_key(source, job) == <<source, canonical_url(job.url)>>

\* a variant of EmitJob whose job event the aggregate total does not count
EmitJobUncounted ==
  /\ s_frame.pc = "jobs"
  /\ s_frame.page_jobs # << >>
  /\ StreamKeeps(Head(s_frame.page_jobs))
  /\ Yield([ type |-> "job", source |-> src, page |-> s_frame.page,
             key |-> compute_job_key(src, Head(s_frame.page_jobs)),
             data |-> Head(s_frame.page_jobs) ])
  /\ s_frame' = [s_frame EXCEPT !.page_jobs = Tail(@),
                                !.emitted_count = @ + 1, !.source_total = @ + 1]
  /\ UNCHANGED <<instances, s_args, batchVars, enrichVars, parseVars, fnVars>>

\* ... a kept record is yielded as a job event
EmitJob ==
  /\ s_frame.pc = "jobs"
  /\ s_frame.page_jobs # << >>
  /\ StreamKeeps(Head(s_frame.page_jobs))
  /\ Yield([ type |-> "job", source |-> src, page |-> s_frame.page,
             key |-> compute_job_key(src, Head(s_frame.page_jobs)),
             data |-> Head(s_frame.page_jobs) ])
  /\ s_frame' = [s_frame EXCEPT !.page_jobs = Tail(@),
                                !.emitted_count = @ + 1, !.total_jobs = @ + 1,
                                !.source_total = @ + 1]
  /\ UNCHANGED <<instances, s_args, batchVars, enrichVars, parseVars, fnVars>>

\* a variant of PageComplete in which an empty page does not break out of the page loop
PageCompleteNoBreak ==
  /\ s_frame.pc = "jobs"
  /\ s_frame.page_jobs = << >>
  /\ Yield([ type |-> "page_complete", source |-> src, page |-> s_frame.page,
             count |-> s_frame.emitted_count ])
  /\ s_frame' = [s_frame EXCEPT !.pc = NextPagePc(s_frame.page + 1), !.page = @ + 1]
  /\ UNCHANGED <<instances, s_args, batchVars, enrichVars, parseVars, fnVars>>

\* yield page_complete; an empty page breaks out of the page loop
PageComplete ==
  /\ s_frame.pc = "jobs"
  /\ s_frame.page_jobs = << >>
  /\ Yield([ type |-> "page_complete", source |-> src, page |-> s_frame.page,
             count |-> s_frame.emitted_count ])
  /\ s_frame' = IF s_frame.emitted_count = 0
                THEN [s_frame EXCEPT !.pc = "source_complete"]
                ELSE [s_frame EXCEPT !.pc = NextPagePc(s_frame.page + 1), !.page = @ + 1]
  /\ UNCHANGED <<instances, s_args, batchVars, enrichVars, parseVars, fnVars>>

\* yield source_complete; next source
SourceComplete ==
  /\ s_frame.pc = "source_complete"
  /\ Yield([ type |-> "source_complete", source |-> src,
             pages |-> s_frame.pages_emitted, total |-> s_frame.source_total ])
  /\ s_frame' = IF s_frame.src_i < Len(requested_sources)
                THEN [s_frame EXCEPT !.pc = "source_start", !.src_i = @ + 1]
                ELSE [s_frame EXCEPT !.pc = "complete"]
  /\ UNCHANGED <<instances, s_args, batchVars, enrichVars, parseVars, fnVars>>

\* yield complete
StreamComplete ==
  /\ s_frame.pc = "complete"
  /\ Yield([ type |-> "complete", total_jobs |-> s_frame.total_jobs,
             sources |-> Len(requested_sources), pages |-> s_frame.total_pages ])
  /\ s_frame' = [s_frame EXCEPT !.pc = "done"]
  /\ UNCHANGED <<instances, s_args, batchVars, enrichVars, parseVars, fnVars>>

StreamNext ==
  \/ StreamStart
  \/ SourceStart
  \/ GetInstance
  \/ PageStart
  \/ CrawlReturns
  \/ CrawlTypeError
  \/ CrawlRaises
  \/ EmitError
  \/ ErrorPageComplete
  \/ SkipJob
  \/ EmitJob
  \/ PageComplete
  \/ SourceComplete
  \/ StreamComplete

vars == <<instances, streamVars, batchVars, enrichVars, parseVars, fnVars>>

SpecStream == StreamInit /\ [][StreamNext]_vars

(***************************************************************************)
(* Properties of the event stream                                          *)
(***************************************************************************)
EventsOfType(T) == { i \in DOMAIN events : events[i].type \in T }

\* the generator has ended: exhausted, or ended by an exception
StreamEnded == s_frame.pc \in {"done", "raised"}

\* the last event of a type in T before position i, or 0
LastBefore(i, T) ==
  LET S == { k \in EventsOfType(T) : k < i }
  IN IF S = {} THEN 0 ELSE CHOOSE k \in S : \A m \in S : m <= k

InSourceTypes == {"page_start", "job", "page_complete", "error", "source_complete"}

\* C1: a stream consumed to its end holds exactly one start event, the first
\* event, and exactly one complete event, the last event, whatever the
\* requested source names and whichever page fetches fail.
C1_OneStartOneComplete ==
  StreamEnded =>
    /\ events # << >>
    /\ Cardinality(EventsOfType({"start"})) = 1
    /\ events[1].type = "start"
    /\ Cardinality(EventsOfType({"complete"})) = 1
    /\ events[Len(events)].type = "complete"

\* C4: events are ordered source, then page, then job: source blocks follow
\* the requested order and are contiguous, page numbers within a block are
\* 1, 2, 3, ... and never exceed max_pages, and every job event carries the
\* source and page of the latest page_start and precedes its page_complete.
C4_SourcePageJobOrder ==
  /\ \A i \in EventsOfType({"source_start"}) :
       /\ LET n == Cardinality({ k \in EventsOfType({"source_start"}) : k < i })
          IN n < Len(requested_sources) /\ events[i].source = requested_sources[n + 1]
       /\ i > 1
       /\ events[i - 1].type \in {"start", "source_complete"}
  /\ \A i \in EventsOfType(InSourceTypes) :
       LET s == LastBefore(i, {"source_start"})
       IN /\ s # 0
          /\ events[s].source = events[i].source
          /\ { k \in EventsOfType({"source_complete"}) : s < k /\ k < i } = {}
  /\ \A i \in EventsOfType({"page_start"}) :
       LET s == LastBefore(i, {"source_start"})
       IN /\ events[i].page
               = 1 + Cardinality({ k \in EventsOfType({"page_start"}) : s < k /\ k < i })
          /\ events[i].page <= s_args.max_pages
  /\ \A i \in EventsOfType({"job"}) :
       LET p == LastBefore(i, {"page_start"})
       IN /\ p # 0
          /\ p > LastBefore(i, {"source_start"})
          /\ events[p].source = events[i].source
          /\ events[p].page = events[i].page
          /\ { k \in EventsOfType({"page_complete"}) : p < k /\ k < i } = {}
  /\ \A i \in EventsOfType({"complete"}) : i = Len(events)

\* two sources were streamed, the first over two pages with a job on each
C4_Witness ==
  /\ s_frame.pc = "done"
  /\ Cardinality(EventsOfType({"source_complete"})) = 2
  /\ \E i \in EventsOfType({"job"}) : events[i].page = 2
  /\ \E i \in EventsOfType({"job"}) : events[i].page = 1

\* C5: the total_jobs of the complete event is the number of job events
\* emitted before it.
C5_TotalJobsCountsJobEvents ==
  \A i \in EventsOfType({"complete"}) :
    events[i].total_jobs = Cardinality({ k \in EventsOfType({"job"}) : k < i })

\* a completed stream with job events, a filtered-out record and a failed page
C5_Witness ==
  /\ s_frame.pc = "done"
  /\ Cardinality(EventsOfType({"job"})) >= 2
  /\ EventsOfType({"error"}) # {}
  /\ s_args.filter.remote_only

SameSourcePage(a, b) == a.source = b.source /\ a.page = b.page

\* C6 as stated: a failed page has an error event in place of its job and
\* page_complete events, so no page_complete follows the error for that page.
C6_ErrorReplacesPageComplete ==
  \A i \in EventsOfType({"error"}) :
    /\ events[i - 1].type = "page_start"
    /\ i + 1 <= Len(events) =>
         ~(events[i + 1].type \in {"job", "page_complete"}
             /\ SameSourcePage(events[i + 1], events[i]))

\* C6 amended: the error event of a failed page directly follows its
\* page_start (no job event for the page), is followed by that page's
\* page_complete with count 0, and processing then continues with the next
\* page of the source, or after the last page with source_complete and the
\* next source.
C6_ErrorThenEmptyPageComplete ==
  \A i \in EventsOfType({"error"}) :
    /\ events[i - 1].type = "page_start"
    /\ SameSourcePage(events[i - 1], events[i])
    /\ i + 1 <= Len(events) =>
         /\ events[i + 1].type = "page_complete"
         /\ SameSourcePage(events[i + 1], events[i])
         /\ events[i + 1].count = 0
    /\ i + 2 <= Len(events) =>
         IF events[i].page < s_args.max_pages
         THEN /\ events[i + 2].type = "page_start"
              /\ events[i + 2].source = events[i].source
              /\ events[i + 2].page = events[i].page + 1
         ELSE /\ events[i + 2].type = "source_complete"
              /\ events[i + 2].source = events[i].source
    /\ (i + 3 <= Len(events) /\ events[i + 2].type = "source_complete") =>
         events[i + 3].type \in {"source_start", "complete"}

\* page 1 of a source failed, page 2 was then fetched and yielded a job, and
\* a failure on the last page of a source was followed by the next source
C6_Witness ==
  /\ s_frame.pc = "done"
  /\ \E i \in EventsOfType({"error"}) :
       /\ events[i].page = 1
       /\ i + 3 <= Len(events)
       /\ events[i + 2].type = "page_start"
       /\ events[i + 3].type = "job"
  /\ \E i \in EventsOfType({"error"}) :
       /\ i + 3 <= Len(events)
       /\ events[i + 3].type = "source_start"

\* C7 as stated: whenever a page_complete with count 0 is emitted, the next
\* event is that source's source_complete (no further page_start).
C7_EmptyPageEndsSource ==
  \A i \in EventsOfType({"page_complete"}) :
    (events[i].count = 0 /\ i + 1 <= Len(events)) =>
      /\ events[i + 1].type = "source_complete"
      /\ events[i + 1].source = events[i].source

\* C7 amended: a page that was fetched and yields zero kept records ends the
\* source's pagination: a page_complete with count 0 that does not follow the
\* page's error event is followed by that source's source_complete.
C7_FetchedEmptyPageEndsSource ==
  \A i \in EventsOfType({"page_complete"}) :
    (events[i].count = 0 /\ events[i - 1].type # "error" /\ i + 1 <= Len(events)) =>
      /\ events[i + 1].type = "source_complete"
      /\ events[i + 1].source = events[i].source

\* a fetched first page kept nothing and ended its source before max_pages
C7_Witness ==
  \E i \in EventsOfType({"page_complete"}) :
    /\ events[i].count = 0
    /\ events[i].page = 1
    /\ events[i - 1].type = "page_start"
    /\ s_args.max_pages = 2
    /\ i + 1 <= Len(events)
    /\ events[i + 1].type = "source_complete"

(***************************************************************************)
(* search_jobs: the batch search.  One _run_source task per requested       *)
(* source runs under gather(return_exceptions=True); the call then filters, *)
(* concatenates, dedupes and optionally enriches.                           *)
(***************************************************************************)
\* enrich_limit if enrich_limit is not None else 50
DefaultEnrichLimit == 50

\* Optional[int]: << >> is None; a limit is a count, never negative
EnrichLimits == { << >>, <<0>>, <<1>> }

\* [s.lower().strip() for s in sources]
BatchRequestedSources(sources) == [ i \in 1..Len(sources) |-> NormSource(sources[i]) ]

b_req_tags_norm == normalize_tags(b_args.filter.tags)

BatchKeeps(j) ==
  FilterKeeps(j, b_args.filter.remote_only, b_args.filter.location, b_req_tags_norm)

TaskFinished(t) == t.pc \in {"done", "failed"}

BatchInit ==
  /\ instances \in {{}, {"ycombinator"}}
  /\ b_args \in [ sources : SourceLists, filter : FilterChoices,
                  per_source_limit : PerSourceLimits,
                  enrich : BOOLEAN, enrich_limit : EnrichLimits ]
  /\ b_tasks = << >>
  /\ b_frame = [ pc |-> "call", deduped |-> << >>, result |-> << >> ]
  /\ StreamIdle /\ EnrichIdle /\ ParseIdle /\ FnIdle

\* if not sources: return []; else one _run_source coroutine per requested source
BatchCall ==
  /\ b_frame.pc = "call"
  /\ IF b_args.sources = << >>
     THEN /\ b_frame' = [b_frame EXCEPT !.pc = "returned"]
          /\ UNCHANGED b_tasks
     ELSE /\ b_tasks' = [ i \in 1..Len(b_args.sources) |->
                            [ src |-> BatchRequestedSources(b_args.sources)[i],
                              pc |-> "new", attempt |-> 0, res |-> << >> ] ]
          /\ b_frame' = [b_frame EXCEPT !.pc = "gather"]
  /\ UNCHANGED <<instances, b_args, streamVars, enrichVars, parseVars, fnVars>>

\* _run_source: inst = self._get_instance(source_key)
RunSourceGetInstance(i) ==
  /\ b_frame.pc = "gather" /\ b_tasks[i].pc = "new"
  /\ IF get_instance_raises(b_tasks[i].src)
     THEN /\ b_tasks' = [b_tasks EXCEPT ![i].pc = "failed"]
          /\ UNCHANGED instances
     ELSE /\ b_tasks' = [b_tasks EXCEPT ![i].pc = "crawl", ![i].attempt = 1]
          /\ instances' = get_instance(instances, b_tasks[i].src)
  /\ UNCHANGED <<b_args, b_frame, streamVars, enrichVars, parseVars, fnVars>>

\* jobs[:per_source_limit], then source_key is set where the crawler left it empty
RunSourceResult(jobs, source_key, per_source_limit) ==
  LET cut == IF per_source_limit # 0 /\ Len(jobs) > per_source_limit
             THEN SubSeq(jobs, 1, per_source_limit) ELSE jobs
  IN [ k \in 1..Len(cut) |->
         [cut[k] EXCEPT !.source_key = IF @ = "" THEN source_key ELSE @] ]

\* _run_source: inst.crawl(...) returns a list
RunSourceCrawlReturns(i) ==
  /\ b_frame.pc = "gather" /\ b_tasks[i].pc = "crawl"
  /\ \E jobs \in CrawlLists(b_tasks[i].src) :
       b_tasks' = [b_tasks EXCEPT
          ![i].pc = "done",
          ![i].res = RunSourceResult(jobs, b_tasks[i].src, b_args.per_source_limit)]
  /\ UNCHANGED <<instances, b_args, b_frame, streamVars, enrichVars, parseVars, fnVars>>

\* _run_source: inst.crawl(...) raises TypeError: retried with fewer arguments, twice
RunSourceCrawlTypeError(i) ==
  /\ b_frame.pc = "gather" /\ b_tasks[i].pc = "crawl"
  /\ b_tasks' = IF b_tasks[i].attempt < 3
                THEN [b_tasks EXCEPT ![i].attempt = @ + 1]
                ELSE [b_tasks EXCEPT ![i].pc = "failed"]
  /\ UNCHANGED <<instances, b_args, b_frame, streamVars, enrichVars, parseVars, fnVars>>

\* a variant of RunSourceCrawlRaises under plain gather: the exception reaches the caller
RunSourceCrawlRaisesPropagates(i) ==
  /\ b_frame.pc = "gather" /\ b_tasks[i].pc = "crawl"
  /\ b_tasks' = [b_tasks EXCEPT ![i].pc = "failed"]
  /\ b_frame' = [b_frame EXCEPT !.pc = "raised"]
  /\ UNCHANGED <<instances, b_args, streamVars, enrichVars, parseVars, fnVars>>

\* _run_source: inst.crawl(...) raises anything else; gather keeps the exception
RunSourceCrawlRaises(i) ==
  /\ b_frame.pc = "gather" /\ b_tasks[i].pc = "crawl"
  /\ b_tasks' = [b_tasks EXCEPT ![i].pc = "failed"]
  /\ UNCHANGED <<instances, b_args, b_frame, streamVars, enrichVars, parseVars, fnVars>>

RECURSIVE CollectJobs(_, _)
\* for src, res in zip(requested_sources, results_lists): skip exceptions, extend kept
CollectJobs(tasks, k) ==
  IF k > Len(tasks) THEN << >>
  ELSE (IF tasks[k].pc = "failed" THEN << >> ELSE SelectSeq(tasks[k].res, BatchKeeps))
       \o CollectJobs(tasks, k + 1)

\* the results are in: filter, concatenate, dedupe; return unless enrichment is due
BatchAggregate ==
  /\ b_frame.pc = "gather"
  /\ \A i \in DOMAIN b_tasks : TaskFinished(b_tasks[i])
  /\ \E jobs \in {CollectJobs(b_tasks, 1)} :
     \E deduped \in {dedupe_jobs_merge_tags(jobs)} :
       b_frame' = [b_frame EXCEPT
          !.pc = IF b_args.enrich /\ deduped # << >> THEN "enrich" ELSE "returned",
          !.deduped = deduped, !.result = deduped]
  /\ UNCHANGED <<instances, b_args, b_tasks, streamVars, enrichVars, parseVars, fnVars>>

\* a variant of EnrichSubsetLen that passes the whole list to enrichment
EnrichSubsetLenIgnoresLimit == Len(b_frame.deduped)

\* subset = deduped[:limit]
EnrichSubsetLen ==
  LET limit == IF b_args.enrich_limit = << >> THEN DefaultEnrichLimit
               ELSE b_args.enrich_limit[1]
  IN IF limit < Len(b_frame.deduped) THEN limit ELSE Len(b_frame.deduped)

\* what one enrich_one task can return for a record
EnrichOneOutcomes(job, insts) ==
  IF EnrichFetches(job)
  THEN { AfterFetch(job, html) : html \in FetchOutcomes(insts, AnyPage) }
  ELSE {job}

RECURSIVE EnrichAll(_, _)
\* the lists gather can return for a list in which no task raises
EnrichAll(jobs, insts) ==
  IF jobs = << >> THEN { << >> }
  ELSE { <<first>> \o rest : first \in EnrichOneOutcomes(Head(jobs), insts),
                             rest \in EnrichAll(Tail(jobs), insts) }

\* enriched_subset = await self.enrich_details(subset); deduped[:n] = enriched_subset
BatchEnrichReturns ==
  /\ b_frame.pc = "enrich"
  /\ LET n == EnrichSubsetLen
         subset == SubSeq(b_frame.deduped, 1, n)
     IN /\ \A k \in 1..n : ~EnrichRaises(subset[k])
        /\ \E enriched_subset \in EnrichAll(subset, instances) :
             b_frame' = [b_frame EXCEPT
                !.pc = "returned",
                !.result = enriched_subset
                           \o SubSeq(b_frame.deduped, n + 1, Len(b_frame.deduped))]
  /\ UNCHANGED <<instances, b_args, b_tasks, streamVars, enrichVars, parseVars, fnVars>>

\* enrich_details raises: except Exception, the deduped list is returned
BatchEnrichFails ==
  /\ b_frame.pc = "enrich"
  /\ \E k \in 1..EnrichSubsetLen : EnrichRaises(b_frame.deduped[k])
  /\ b_frame' = [b_frame EXCEPT !.pc = "returned", !.result = b_frame.deduped]
  /\ UNCHANGED <<instances, b_args, b_tasks, streamVars, enrichVars, parseVars, fnVars>>

BatchNext ==
  \/ BatchCall
  \/ \E i \in DOMAIN b_tasks : RunSourceGetInstance(i)
  \/ \E i \in DOMAIN b_tasks : RunSourceCrawlReturns(i)
  \/ \E i \in DOMAIN b_tasks : RunSourceCrawlTypeError(i)
  \/ \E i \in DOMAIN b_tasks : RunSourceCrawlRaises(i)
  \/ BatchAggregate
  \/ BatchEnrichReturns
  \/ BatchEnrichFails

SpecBatch == BatchInit /\ [][BatchNext]_vars

(***************************************************************************)
(* Properties of search_jobs                                               *)
(***************************************************************************)
BatchReturned == b_frame.pc = "returned"

\* the filter-passing records of task i, as _run_source returned them
KeptOf(i) == SelectSeq(b_tasks[i].res, BatchKeeps)

ResultKeys == { DedupeKey(b_frame.result[n]) : n \in DOMAIN b_frame.result }

\* C2: whichever source tasks fail (the crawl raises, or the source name is unknown),
\* search_jobs never ends with an exception, and its result holds, up to
\* dedupe-merge, exactly the filter-passing records of the sources that did not fail:
\* every result record stems from a non-failing source, and no filter-passing record
\* of a non-failing source is missing
C2_BatchFailureIsolated ==
  /\ b_frame.pc \in {"idle", "call", "gather", "enrich", "returned"}
  /\ BatchReturned =>
       /\ \A n \in DOMAIN b_frame.result :
            \E i \in DOMAIN b_tasks :
              /\ b_tasks[i].pc = "done"
              /\ \E k \in DOMAIN KeptOf(i) :
                   DedupeKey(KeptOf(i)[k]) = DedupeKey(b_frame.result[n])
       /\ \A i \in DOMAIN b_tasks :
            b_tasks[i].pc = "done" =>
              \A k \in DOMAIN KeptOf(i) : DedupeKey(KeptOf(i)[k]) \in ResultKeys

\* a call has returned in which one source failed and a sibling's records are returned
C2_Witness ==
  /\ BatchReturned
  /\ \E i, k \in DOMAIN b_tasks :
       /\ b_tasks[i].pc = "failed"
       /\ b_tasks[k].pc = "done" /\ KeptOf(k) # << >>
  /\ b_frame.result # << >>

ResultsWithCanonical(c) ==
  { n \in DOMAIN b_frame.result : canonical_url(b_frame.result[n].url) = c }

\* C3: when two different sources return filter-passing postings whose URLs have the
\* same canonical form, the result of search_jobs holds exactly one record with that
\* canonical URL, and its tags include the tags of both postings
C3_CrossSourceDuplicateMerged ==
  BatchReturned =>
    \A i, k \in DOMAIN b_tasks :
      (b_tasks[i].pc = "done" /\ b_tasks[k].pc = "done" /\ b_tasks[i].src # b_tasks[k].src) =>
        \A a \in DOMAIN KeptOf(i) : \A b \in DOMAIN KeptOf(k) :
          LET ja == KeptOf(i)[a]
              jb == KeptOf(k)[b]
              c == canonical_url(ja.url)
          IN canonical_url(jb.url) = c =>
               /\ Cardinality(ResultsWithCanonical(c)) = 1
               /\ \A n \in ResultsWithCanonical(c) :
                    Range(ja.tags) \cup Range(jb.tags) \subseteq Range(b_frame.result[n].tags)

(***************************************************************************)
(* enrich_details: one enrich_one task per record under gather.  A task    *)
(* that has to fetch enters "async with self._global_sem, dom_sem" first;   *)
(* the semaphores belong to the service, so the tasks of overlapping calls  *)
(* compete for the same permits.                                            *)
(***************************************************************************)
leverJob == [hnB EXCEPT !.description = ""]

noUrlJob == [waA EXCEPT !.url = << >>]

exampleJob == [ycA EXCEPT !.url = U_Example]

\* the page with a description, a salary line and a mention of remote work
FullPage == { html \in HtmlDocs : html.node /\ ~html.raises }

\* the lists of the enrich_details calls made on the service in one run, and the
\* answers the fetched sites give during it
EnrichScenarios ==
  { [ lists |-> << <<hnB, noUrlJob, exampleJob, ycA, waA>> >>, pages |-> AnyPage ],
    [ lists |-> << <<ycA, waBad, waA>> >>, pages |-> AnyPage ],
    [ lists |-> << << >>, <<hnA, leverJob>> >>, pages |-> AnyPage ],
    [ lists |-> << <<ycA, ycA, ycA, ycA, ycA, leverJob>>,
                   <<leverJob, leverJob, leverJob, waA, waA, waA>> >>,
      pages |-> FullPage ] }

RECURSIVE TasksOf(_, _)
\* the tasks of calls c.. of a scenario, in call order and list order
TasksOf(scenario, c) ==
  IF c > Len(scenario) THEN << >>
  ELSE [ k \in 1..Len(scenario[c]) |->
           [ call |-> c, orig |-> scenario[c][k], job |-> scenario[c][k],
             pc |-> "idle", domain |-> "", html |-> NoContent ] ]
       \o TasksOf(scenario, c + 1)

TasksOfCall(c) == { t \in DOMAIN e_tasks : e_tasks[t].call = c }

EnrichInit ==
  /\ instances \in {{}, {"ycombinator"}}
  /\ \E scenario \in EnrichScenarios :
       /\ e_calls = [ c \in 1..Len(scenario.lists) |->
                        [ pc |-> "idle", pages |-> scenario.pages ] ]
       /\ e_tasks = TasksOf(scenario.lists, 1)
  /\ e_global = Semaphore(GlobalCap)
  /\ e_domain = NoDomainSemaphores
  /\ StreamIdle /\ BatchIdle /\ ParseIdle /\ FnIdle

\* return await asyncio.gather(*(enrich_one(j) for j in jobs)): the tasks are created
EnrichCall(c) ==
  /\ e_calls[c].pc = "idle"
  /\ e_calls' = [e_calls EXCEPT ![c].pc = IF TasksOfCall(c) = {} THEN "returned" ELSE "gather"]
  /\ e_tasks' = [ t \in DOMAIN e_tasks |->
                    IF e_tasks[t].call = c THEN [e_tasks[t] EXCEPT !.pc = "new"]
                    ELSE e_tasks[t] ]
  /\ UNCHANGED <<instances, e_global, e_domain, streamVars, batchVars, parseVars, fnVars>>

\* a variant of get_domain_sem that makes a new semaphore on every call
get_domain_sem_always_new(doms, dom) ==
  [ d \in DOMAIN doms \cup {dom} |->
      IF d = dom THEN Semaphore(DomainCap) ELSE doms[d] ]

\* JobService._get_domain_sem: the domain's semaphore is made on first use
get_domain_sem(doms, dom) ==
  [ d \in DOMAIN doms \cup {dom} |->
      IF d \in DOMAIN doms THEN doms[d] ELSE Semaphore(DomainCap) ]

\* dom_sem.acquire(): take a permit at once, or queue up
AcquireDomain(doms, dom, t) ==
  IF locked(doms[dom]) THEN [doms EXCEPT ![dom] = enqueue(@, t)]
  ELSE [doms EXCEPT ![dom].value = @ - 1]

PcAfterAcquireDomain(doms, dom) == IF locked(doms[dom]) THEN "wait_domain" ELSE "fetch"

\* enrich_one from its start to its first suspension or return
EnrichOneBegin(t) ==
  /\ e_tasks[t].pc = "new"
  /\ \A u \in 1..(t - 1) : e_tasks[u].call = e_tasks[t].call => e_tasks[u].pc # "new"
  /\ LET job == e_tasks[t].job
         dom == EnrichDomain(job)
         doms == get_domain_sem(e_domain, dom)
     IN IF EnrichRaises(job)
        THEN /\ e_tasks' = [e_tasks EXCEPT ![t].pc = "raised"]
             /\ UNCHANGED <<e_global, e_domain>>
        ELSE IF ~EnrichFetches(job)
        THEN /\ e_tasks' = [e_tasks EXCEPT ![t].pc = "done"]
             /\ UNCHANGED <<e_global, e_domain>>
        ELSE IF locked(e_global)
        THEN /\ e_global' = enqueue(e_global, t)
             /\ e_domain' = doms
             /\ e_tasks' = [e_tasks EXCEPT ![t].pc = "wait_global", ![t].domain = dom]
        ELSE /\ e_global' = [e_global EXCEPT !.value = @ - 1]
             /\ e_domain' = AcquireDomain(doms, dom, t)
             /\ e_tasks' = [e_tasks EXCEPT ![t].pc = PcAfterAcquireDomain(doms, dom),
                                          ![t].domain = dom]
  /\ UNCHANGED <<instances, e_calls, streamVars, batchVars, parseVars, fnVars>>

\* the global permit was handed over: go on to dom_sem.acquire()
EnrichOneGlobalGranted(t) ==
  /\ e_tasks[t].pc = "wait_global" /\ Granted(e_global, t)
  /\ LET dom == e_tasks[t].domain
     IN /\ e_global' = resume(e_global, t)
        /\ e_domain' = AcquireDomain(e_domain, dom, t)
        /\ e_tasks' = [e_tasks EXCEPT ![t].pc = PcAfterAcquireDomain(e_domain, dom)]
  /\ UNCHANGED <<instances, e_calls, streamVars, batchVars, parseVars, fnVars>>

\* the domain permit was handed over: html = await fetch_html()
EnrichOneDomainGranted(t) ==
  /\ e_tasks[t].pc = "wait_domain"
  /\ LET dom == e_tasks[t].domain
     IN /\ Granted(e_domain[dom], t)
        /\ e_domain' = [e_domain EXCEPT ![dom] = resume(@, t)]
  /\ e_tasks' = [e_tasks EXCEPT ![t].pc = "fetch"]
  /\ UNCHANGED <<instances, e_calls, e_global, streamVars, batchVars, parseVars, fnVars>>

\* fetch_html returns; the handler runs; leaving "async with" releases dom_sem, then
\* the global semaphore
EnrichOneFetchReturns(t) ==
  /\ e_tasks[t].pc = "fetch"
  /\ \E html \in FetchOutcomes(instances, e_calls[e_tasks[t].call].pages) :
       e_tasks' = [e_tasks EXCEPT ![t].pc = "done", ![t].html = html,
                                  ![t].job = AfterFetch(@, html)]
  /\ e_domain' = [e_domain EXCEPT ![e_tasks[t].domain] = release(@)]
  /\ e_global' = release(e_global)
  /\ UNCHANGED <<instances, e_calls, streamVars, batchVars, parseVars, fnVars>>

\* gather: every task has returned, the list of their results is returned
EnrichDetailsReturns(c) ==
  /\ e_calls[c].pc = "gather"
  /\ \A t \in TasksOfCall(c) : e_tasks[t].pc = "done"
  /\ e_calls' = [e_calls EXCEPT ![c].pc = "returned"]
  /\ UNCHANGED <<instances, e_tasks, e_global, e_domain, streamVars, batchVars, parseVars, fnVars>>

\* gather without return_exceptions: the first exception of a task is raised to the
\* caller, the other tasks run on
EnrichDetailsRaises(c) ==
  /\ e_calls[c].pc = "gather"
  /\ \E t \in TasksOfCall(c) : e_tasks[t].pc = "raised"
  /\ e_calls' = [e_calls EXCEPT ![c].pc = "raised"]
  /\ UNCHANGED <<instances, e_tasks, e_global, e_domain, streamVars, batchVars, parseVars, fnVars>>

EnrichNext ==
  \/ \E c \in DOMAIN e_calls : EnrichCall(c)
  \/ \E t \in DOMAIN e_tasks : EnrichOneBegin(t)
  \/ \E t \in DOMAIN e_tasks : EnrichOneGlobalGranted(t)
  \/ \E t \in DOMAIN e_tasks : EnrichOneDomainGranted(t)
  \/ \E t \in DOMAIN e_tasks : EnrichOneFetchReturns(t)
  \/ \E c \in DOMAIN e_calls : EnrichDetailsReturns(c)
  \/ \E c \in DOMAIN e_calls : EnrichDetailsRaises(c)

SpecEnrich == EnrichInit /\ [][EnrichNext]_vars

(***************************************************************************)
(* Properties of enrich_details                                            *)
(***************************************************************************)
\* the tasks whose fetch is in flight
InFlight == { t \in DOMAIN e_tasks : e_tasks[t].pc = "fetch" }

InFlightTo(d) == { t \in InFlight : e_tasks[t].domain = d }

\* the waiters of a semaphore that were handed a permit and have not resumed yet
GrantedWaiters(s) == { i \in DOMAIN s.waiters : s.waiters[i].done }

\* the tasks that are past self._global_sem.acquire() and have not released it
PastGlobalAcquire == { t \in DOMAIN e_tasks : e_tasks[t].pc \in {"wait_domain", "fetch"} }

\* C8: at every moment at most 10 enrichment fetches are in flight on the service and
\* at most 4 to any one domain, across the tasks of all calls; and a task that is
\* fetching holds a global permit and a permit of its domain: the permits out of
\* each semaphore are exactly those of the tasks past its acquire (the fetching tasks
\* among them) and those handed to waiters that have not resumed yet
C8_AdmissionCaps ==
  /\ Cardinality(InFlight) <= GlobalCap
  /\ \A d \in DOMAIN e_domain : Cardinality(InFlightTo(d)) <= DomainCap
  /\ e_global.value >= 0
  /\ GlobalCap - e_global.value
       = Cardinality(PastGlobalAcquire) + Cardinality(GrantedWaiters(e_global))
  /\ \A t \in InFlight : e_tasks[t].domain \in DOMAIN e_domain
  /\ \A d \in DOMAIN e_domain :
       /\ e_domain[d].value >= 0
       /\ DomainCap - e_domain[d].value
            = Cardinality(InFlightTo(d)) + Cardinality(GrantedWaiters(e_domain[d]))

\* both caps bind while two calls overlap: 10 fetches in flight, from both calls, 4 of
\* them to one domain, and a further task queued on the global semaphore
C8_Witness ==
  /\ Cardinality(InFlight) = GlobalCap
  /\ \E d \in DOMAIN e_domain : Cardinality(InFlightTo(d)) = DomainCap
  /\ \E t \in DOMAIN e_tasks : e_tasks[t].pc = "wait_global"
  /\ \E t, u \in InFlight : e_tasks[t].call # e_tasks[u].call

\* the record of task t is one that must pass through: no URL, no handler for its
\* domain, no content fetched, or a handler that raised
PassesThrough(t) ==
  LET orig == e_tasks[t].orig
  IN \/ orig.url = << >>
     \/ (~urlparse(orig.url).raises /\ EnrichHandler(orig) = "none")
     \/ (e_tasks[t].pc = "done" /\ (~e_tasks[t].html.present \/ e_tasks[t].html.raises))

\* C9: no enrich_details call raises, and in the list a call returns a record with
\* no URL, with no handler for its domain, whose fetch gave no content or whose
\* handler raised is returned with every field as it was given
C9_EnrichNeverRaisesNorDamages ==
  \A c \in DOMAIN e_calls :
    /\ e_calls[c].pc # "raised"
    /\ e_calls[c].pc = "returned" =>
         \A t \in TasksOfCall(c) : PassesThrough(t) => e_tasks[t].job = e_tasks[t].orig

\* the number of characters of a description
DescLen(d) ==
  CASE d = "" -> 0
    [] d = "  " -> 2
    [] d = "short" -> 5
    [] d = "full description" -> 16
    [] OTHER -> 5001

\* task t went on to the semaphores and the fetch
WentToFetch(t) == e_tasks[t].domain # ""

\* C25: enrichment skips a record exactly when its description is longer than
\* 200 characters: a record whose domain has a handler and whose description
\* is empty or at most 200 characters long is fetched, and a record with a
\* description longer than 200 characters is never fetched
C25_SkipsOnlyLongDescriptions ==
  \A t \in DOMAIN e_tasks :
    LET orig == e_tasks[t].orig
    IN /\ ( /\ e_tasks[t].pc = "done"
            /\ orig.url # << >> /\ ~urlparse(orig.url).raises
            /\ EnrichHandler(orig) # "none"
            /\ DescLen(orig.description) <= 200 ) => WentToFetch(t)
       /\ DescLen(orig.description) > 200 => ~WentToFetch(t)

(***************************************************************************)
(* parse_job_url (services/job_service.py): fetch one URL, then the parser  *)
(* registry, then the generic extractor as a fallback.  The parsers are     *)
(* collaborators: registry.choose and parser.parse return a ParsedJob or    *)
(* raise.                                                                   *)
(***************************************************************************)
U_YcJob == <<"https", "://", "www.ycombinator.com", "/companies/acme/jobs/1">>

ParseUrls ==
  { U_GreenhousePlain, U_GreenhouseUpper, U_Lever, U_Ashby, U_Example, U_YcJob,
    U_BadBracket, U_NoHost }

\* the names bound at module level in services/job_service.py
ModuleGlobals ==
  { "annotations", "asyncio", "datetime", "timezone", "Dict", "List", "Optional",
    "JobPosting", "BeautifulSoup", "ParserRegistry", "YcJobParser", "AshbyJobParser",
    "LeverJobParser", "GreenhouseJobParser", "GenericHtmlParser", "BaseCrawler",
    "YCombinatorCrawler", "HackerNewsCrawler", "WorkAtStartupCrawler",
    "YCCompaniesCrawler", "JobService" }

\* 'ycombinator.com/companies/' in url and '/jobs/' in url
use_yc_parser(url) == url = U_YcJob

\* urlparse(url).hostname or "unknown"
HostOf(url) ==
  IF urlparse(url).netloc = "" THEN "unknown" ELSE LowerTok(urlparse(url).netloc)

\* crawler.get_text(url): a URL without a usable host cannot be fetched
ParseFetchOutcomes(url) ==
  IF urlparse(url).raises \/ urlparse(url).netloc = "" THEN {"absent"}
  ELSE {"absent", "page", "odd page"}

\* what parser.parse returns
ParsedJobs ==
  { [ source |-> "Ashby", title |-> T_Dev, company |-> T_Acme, location |-> T_RemoteUS,
      description |-> "short" ],
    [ source |-> "", title |-> T_Empty, company |-> T_Empty, location |-> T_Empty,
      description |-> "" ],
    [ source |-> "", title |-> T_Dev, company |-> T_Empty, location |-> T_BerlinDE,
      description |-> "longer than 5000" ] }

T_remote == <<"r","e","m","o","t","e">>

\* description[:5000] + "..." if len(description) > 5000
Truncate5000(description) ==
  IF description = "longer than 5000" THEN "first 5000..." ELSE description

\* the JobPosting built from the parser's ParsedJob
PostingFromParsed(url, parsed) ==
  JobPosting([ id |-> << >>,
               source |-> IF parsed.source # "" THEN parsed.source
                          ELSE IF use_yc_parser(url) THEN "Y Combinator" ELSE "",
               source_key |-> "", url |-> url,
               title |-> IF parsed.title # T_Empty THEN parsed.title ELSE T_JobPosting,
               company |-> IF parsed.company # T_Empty THEN parsed.company ELSE T_Unknown,
               location |-> IF parsed.location # T_Empty THEN parsed.location
                            ELSE T_Unknown,
               description |-> Truncate5000(parsed.description),
               salary |-> "",
               remote_ok |-> Contains(LowerS(parsed.location), T_remote),
               tags |-> << >> ])

\* the basic posting built when no content could be fetched
DegradedPosting(url) ==
  JobPosting([ id |-> << >>, source |-> HostOf(url), source_key |-> "", url |-> url,
               title |-> <<"Job at ", HostOf(url)>>, company |-> <<HostOf(url)>>,
               location |-> <<"Location Not Specified">>,
               description |-> "Could not fetch content from {url}",
               salary |-> "", remote_ok |-> FALSE, tags |-> << >> ])

\* _extract_job_details_from_html: the try block builds a posting or raises; either
\* way the next statement is print(..., file=sys.stderr), and the except block ends
\* with the same statement after urlparse(url)
extract_job_details_from_html(html, url) ==
  LET tryRaises == html = "odd page" \/ "sys" \notin ModuleGlobals
      exceptRaises == urlparse(url).raises \/ "sys" \notin ModuleGlobals
  IN IF ~tryRaises
     THEN [ raises |-> FALSE,
            posting |-> JobPosting([ id |-> << >>, source |-> urlparse(url).netloc,
                          source_key |-> "", url |-> url, title |-> T_JobPosting,
                          company |-> T_UnknownCompany,
                          location |-> <<"Location Not Specified">>,
                          description |-> "No description available",
                          salary |-> "", remote_ok |-> FALSE, tags |-> << >> ]) ]
     ELSE IF ~exceptRaises
     THEN [ raises |-> FALSE,
            posting |-> [DegradedPosting(url) EXCEPT
                           !.description = "Could not parse job details from {url}"] ]
     ELSE [ raises |-> TRUE, posting |-> DegradedPosting(url) ]

ParseInit ==
  /\ instances = {}
  /\ p_args \in [ url : ParseUrls ]
  /\ p_frame = [ pc |-> "call", html |-> "absent", outcome |-> "none",
                 parsed |-> << >>, result |-> [ url |-> << >> ] ]
  /\ StreamIdle /\ BatchIdle /\ EnrichIdle /\ FnIdle

\* crawler = BaseCrawler(); await crawler._ensure_session()
ParseCall ==
  /\ p_frame.pc = "call"
  /\ p_frame' = [p_frame EXCEPT !.pc = "fetch"]
  /\ UNCHANGED <<instances, p_args, streamVars, batchVars, enrichVars, fnVars>>

\* html_content = await crawler.get_text(url)
ParseFetchReturns ==
  /\ p_frame.pc = "fetch"
  /\ \E html \in ParseFetchOutcomes(p_args.url) :
       p_frame' = [p_frame EXCEPT !.html = html,
                                  !.pc = IF html = "absent" THEN "no_content" ELSE "registry"]
  /\ UNCHANGED <<instances, p_args, streamVars, batchVars, enrichVars, fnVars>>

\* if not html_content: parsed = urlparse(url); return the basic posting
ParseNoContent ==
  /\ p_frame.pc = "no_content"
  /\ p_frame' = IF urlparse(p_args.url).raises
                THEN [p_frame EXCEPT !.pc = "finally", !.outcome = "raised"]
                ELSE [p_frame EXCEPT !.pc = "finally", !.outcome = "returned",
                                     !.result = DegradedPosting(p_args.url)]
  /\ UNCHANGED <<instances, p_args, streamVars, batchVars, enrichVars, fnVars>>

\* parser, det = registry.choose(url, soup); parsed = parser.parse(url, soup)
ParseRegistryReturns ==
  /\ p_frame.pc = "registry"
  /\ \E parsed \in ParsedJobs :
       p_frame' = [p_frame EXCEPT !.pc = "finally", !.outcome = "returned",
                                  !.parsed = <<parsed>>,
                                  !.result = PostingFromParsed(p_args.url, parsed)]
  /\ UNCHANGED <<instances, p_args, streamVars, batchVars, enrichVars, fnVars>>

\* the registry path raises: except Exception
ParseRegistryRaises ==
  /\ p_frame.pc = "registry"
  /\ p_frame' = [p_frame EXCEPT !.pc = "fallback"]
  /\ UNCHANGED <<instances, p_args, streamVars, batchVars, enrichVars, fnVars>>

\* job_posting = self._extract_job_details_from_html(html_content, url)
ParseFallback ==
  /\ p_frame.pc = "fallback"
  /\ LET r == extract_job_details_from_html(p_frame.html, p_args.url)
     IN p_frame' = IF r.raises
                   THEN [p_frame EXCEPT !.pc = "finally", !.outcome = "raised"]
                   ELSE [p_frame EXCEPT !.pc = "finally", !.outcome = "returned",
                                        !.result = r.posting]
  /\ UNCHANGED <<instances, p_args, streamVars, batchVars, enrichVars, fnVars>>

\* finally: await crawler.close_session(); the call returns or raises
ParseFinally ==
  /\ p_frame.pc = "finally"
  /\ p_frame' = [p_frame EXCEPT !.pc = p_frame.outcome]
  /\ UNCHANGED <<instances, p_args, streamVars, batchVars, enrichVars, fnVars>>

ParseNext ==
  \/ ParseCall
  \/ ParseFetchReturns
  \/ ParseNoContent
  \/ ParseRegistryReturns
  \/ ParseRegistryRaises
  \/ ParseFallback
  \/ ParseFinally

SpecParse == ParseInit /\ [][ParseNext]_vars

(***************************************************************************)
(* Properties of parse_job_url                                             *)
(***************************************************************************)
\* C10: parse_job_url never ends with an exception, whatever the fetch and the
\* parsers do; when the fetch gave no content the returned posting carries the
\* URL's hostname in its title and as its company, and a description that explains
\* the failure
C10_ParseJobUrlNeverFails ==
  /\ p_frame.pc # "raised"
  /\ (p_frame.pc = "returned" /\ p_frame.html = "absent") =>
       /\ p_frame.result.title = <<"Job at ", HostOf(p_args.url)>>
       /\ p_frame.result.company = <<HostOf(p_args.url)>>
       /\ p_frame.result.description = "Could not fetch content from {url}"

(***************************************************************************)
(* _dedupe_jobs_merge_tags applied on its own, and applied again to its     *)
(* own result.                                                              *)
(***************************************************************************)
\* the bound on the length of the lists given to the helper functions
MaxLen == 3

ycC == [ycA EXCEPT !.url = U_GreenhouseUtm, !.location = T_BerlinDE, !.tags = <<T_go>>]

noUrlOther == [noUrlJob EXCEPT !.title = T_Acme, !.tags = <<T_go>>, !.remote_ok = TRUE]

\* a record constructed without company and location
ycUnset ==
  JobPosting([id |-> << >>, source |-> "Y Combinator", source_key |-> "",
              url |-> U_GreenhouseUtm, title |-> T_Dev, company |-> T_Empty,
              location |-> T_Empty, description |-> "", salary |-> "",
              remote_ok |-> FALSE, tags |-> << >>])

DedupePool == { hnA, ycA, ycB, ycC, ycUnset, waA, noUrlJob, noUrlOther }

RECURSIVE ListsUpTo(_, _)
\* the lists of at most n elements of S
ListsUpTo(S, n) ==
  IF n = 0 THEN { << >> }
  ELSE ListsUpTo(S, n - 1)
       \cup { Append(l, x) : l \in { m \in ListsUpTo(S, n - 1) : Len(m) = n - 1 }, x \in S }

DedupeInit ==
  /\ instances = {}
  /\ \E jobs \in ListsUpTo(DedupePool, MaxLen) : f_in = [ fn |-> "dedupe", jobs |-> jobs ]
  /\ f_out = [ pc |-> "call" ]
  /\ StreamIdle /\ BatchIdle /\ EnrichIdle /\ ParseIdle

\* out = self._dedupe_jobs_merge_tags(jobs)
DedupeApply ==
  /\ f_in.fn = "dedupe" /\ f_out.pc = "call"
  /\ \E out \in {dedupe_jobs_merge_tags(f_in.jobs)} :
       f_out' = [ pc |-> "returned", out |-> out ]
  /\ UNCHANGED <<instances, f_in, streamVars, batchVars, enrichVars, parseVars>>

\* again = self._dedupe_jobs_merge_tags(out)
DedupeReapply ==
  /\ f_in.fn = "dedupe" /\ f_out.pc = "returned"
  /\ \E again \in {dedupe_jobs_merge_tags(f_out.out)} :
       f_out' = [ pc |-> "reapplied", out |-> f_out.out, again |-> again ]
  /\ UNCHANGED <<instances, f_in, streamVars, batchVars, enrichVars, parseVars>>

DedupeNext == DedupeApply \/ DedupeReapply

SpecDedupe == DedupeInit /\ [][DedupeNext]_vars

\* the positions of the input whose record has key k
InputsWithKey(k) == { i \in DOMAIN f_in.jobs : DedupeKey(f_in.jobs[i]) = k }

DedupeDone == f_in.fn = "dedupe" /\ f_out.pc \in {"returned", "reapplied"}

\* C11: dedupe-merge applied to its own result returns that result unchanged:
\* the same length, the same order, every field of every record equal
C11_DedupeIdempotent ==
  (f_in.fn = "dedupe" /\ f_out.pc = "reapplied") => f_out.again = f_out.out

\* dedupe was reapplied to the result of a list of three records without URL that
\* share a key
C11_Witness ==
  /\ f_in.fn = "dedupe" /\ f_out.pc = "reapplied"
  /\ \E i \in DOMAIN f_in.jobs :
       /\ f_in.jobs[i].url = << >>
       /\ Cardinality(InputsWithKey(DedupeKey(f_in.jobs[i]))) >= 3
  /\ Len(f_out.again) = 1

\* C12: in the result of dedupe-merge every record's tags include the tags of every
\* input record with its key (the record first kept and each duplicate), and its
\* remote_ok is true if remote_ok was true on any of them
C12_MergeMonotone ==
  DedupeDone =>
    \A n \in DOMAIN f_out.out :
      \A i \in InputsWithKey(DedupeKey(f_out.out[n])) :
        /\ Range(f_in.jobs[i].tags) \subseteq Range(f_out.out[n].tags)
        /\ f_in.jobs[i].remote_ok => f_out.out[n].remote_ok

\* a record was merged from three inputs with different tags, the first of them
\* with remote_ok true and a later one with remote_ok false
C12_Witness ==
  /\ DedupeDone
  /\ \E n \in DOMAIN f_out.out :
       LET same == InputsWithKey(DedupeKey(f_out.out[n]))
       IN /\ Cardinality(same) >= 3
          /\ \E i, k \in same :
               /\ i < k /\ f_in.jobs[i].remote_ok /\ ~f_in.jobs[k].remote_ok
               /\ f_in.jobs[i].tags # f_in.jobs[k].tags

\* the positions of the input at which a key occurs for the first time
FirstOccurrences ==
  { i \in DOMAIN f_in.jobs :
      \A k \in 1..(i - 1) : DedupeKey(f_in.jobs[k]) # DedupeKey(f_in.jobs[i]) }

\* the fields a merge leaves alone
UnmergedFields ==
  DOMAIN hnA \ {"tags", "remote_ok", "location", "company"}

\* a is the record b, possibly after merges
SameRecord(a, b) == \A f \in UnmergedFields : a[f] = b[f]

\* C23: the result of dedupe-merge has no two records with the same key
\* (source, canonical_url(url)) and exactly one record for each key of the
\* input; that record is the first input record with the key, and the records
\* stand in the order of these first occurrences
C23_OneRecordPerKeyInFirstOrder ==
  DedupeDone =>
    /\ \A n, k \in DOMAIN f_out.out :
         DedupeKey(f_out.out[n]) = DedupeKey(f_out.out[k]) => n = k
    /\ { DedupeKey(f_out.out[n]) : n \in DOMAIN f_out.out }
         = { DedupeKey(f_in.jobs[i]) : i \in DOMAIN f_in.jobs }
    /\ Len(f_out.out) = Cardinality(FirstOccurrences)
    /\ \A n \in DOMAIN f_out.out :
         \E i \in FirstOccurrences :
           /\ Cardinality({ k \in FirstOccurrences : k <= i }) = n
           /\ SameRecord(f_out.out[n], f_in.jobs[i])

\* a key occurs first, another key second, and the first key again with another
\* URL spelling: two records are returned
C23_Witness ==
  /\ DedupeDone
  /\ Len(f_in.jobs) = 3 /\ Len(f_out.out) = 2
  /\ DedupeKey(f_in.jobs[1]) = DedupeKey(f_in.jobs[3])
  /\ f_in.jobs[1].url # f_in.jobs[3].url
  /\ f_out.out[1].url = f_in.jobs[1].url

\* the values that stand for a missing location or company: the fallbacks of the
\* crawlers and of __post_init__
IsSentinel(v) == v \in {T_Empty, T_Unknown, T_UnknownCompany}

\* the input positions after the first whose record is merged into a kept record
MergedPositions == DOMAIN f_in.jobs \ FirstOccurrences

\* the kept record that the record at input position m is merged into, as it is
\* just before the merge and just after it
KeptBefore(m) ==
  LET out == dedupe_jobs_merge_tags(SubSeq(f_in.jobs, 1, m - 1))
  IN out[CHOOSE n \in DOMAIN out : DedupeKey(out[n]) = DedupeKey(f_in.jobs[m])]

KeptAfter(m) ==
  LET out == dedupe_jobs_merge_tags(SubSeq(f_in.jobs, 1, m))
  IN out[CHOOSE n \in DOMAIN out : DedupeKey(out[n]) = DedupeKey(f_in.jobs[m])]

\* C24: a merge changes the kept record's location, and likewise its company,
\* only if the value it had is empty or "Unknown" and the duplicate's value is
\* not a sentinel, and then to the duplicate's value: a real value is never
\* replaced and a sentinel is never written over another value; no field
\* other than tags, remote_ok, location and company is changed
C24_BackfillOnlyRealOverSentinel ==
  DedupeDone =>
    \A m \in MergedPositions :
      \E before \in {KeptBefore(m)}, after \in {KeptAfter(m)} :
        /\ \A f \in {"location", "company"} :
             after[f] # before[f] =>
               /\ before[f] \in {T_Empty, T_Unknown}
               /\ after[f] = f_in.jobs[m][f]
               /\ ~IsSentinel(f_in.jobs[m][f])
        /\ SameRecord(after, before)

(***************************************************************************)
(* _canonical_url applied on its own, and applied again to its own result.  *)
(***************************************************************************)
\* the bound on the number of query parameters of a URL
MaxParams == 2

\* key=value segments of a query, one of them with an empty value
ParamPool ==
  { <<"utm_source", "=", "hn">>, <<"UTM_Source", "=", "x">>, <<"gh_src", "=", "a">>,
    <<"ref", "=", "b">>, <<"ashby_jid", "=", "123">>, <<"team", "=", "eng">>,
    <<"q", "=">>, <<"q", "=", "a%20b">> }

\* scheme, "://", host and path
UrlHeads ==
  { <<"https", "://", "boards.greenhouse.io", "/acme/jobs/1">>,
    <<"HTTPS", "://", "Boards.Greenhouse.io", "/acme/jobs/1">>,
    <<"http", "://", "[jobs.lever.co", "/x">> }

UrlFragments == { << >>, <<"#", "apply">> }

QueryTokens(params) == IF params = << >> THEN << >> ELSE <<"?">> \o JoinWith(params, <<"&">>)

CanonUrls ==
  { head \o QueryTokens(params) \o frag :
      head \in UrlHeads, params \in ListsUpTo(ParamPool, MaxParams), frag \in UrlFragments }
  \cup { << >>, U_NoHost }

CanonInit ==
  /\ instances = {}
  /\ \E url \in CanonUrls : f_in = [ fn |-> "canonical_url", url |-> url ]
  /\ f_out = [ pc |-> "call" ]
  /\ StreamIdle /\ BatchIdle /\ EnrichIdle /\ ParseIdle

\* out = self._canonical_url(url)
CanonApply ==
  /\ f_in.fn = "canonical_url" /\ f_out.pc = "call"
  /\ \E out \in {canonical_url(f_in.url)} : f_out' = [ pc |-> "returned", out |-> out ]
  /\ UNCHANGED <<instances, f_in, streamVars, batchVars, enrichVars, parseVars>>

\* again = self._canonical_url(out)
CanonReapply ==
  /\ f_in.fn = "canonical_url" /\ f_out.pc = "returned"
  /\ \E again \in {canonical_url(f_out.out)} :
       f_out' = [ pc |-> "reapplied", out |-> f_out.out, again |-> again ]
  /\ UNCHANGED <<instances, f_in, streamVars, batchVars, enrichVars, parseVars>>

CanonNext == CanonApply \/ CanonReapply

SpecCanon == CanonInit /\ [][CanonNext]_vars

\* the key=value segments of the query of a URL, as written in the URL
QuerySegments(u) ==
  LET NonEmpty(seg) == seg # << >>
  IN SelectSeq(SplitOn(urlparse(u).query, "&"), NonEmpty)

IsTrackingSegment(seg) == IsTrackingKey(<<seg[1]>>)

CanonDone == f_in.fn = "canonical_url" /\ f_out.pc \in {"returned", "reapplied"}

\* C13: the canonical URL of every URL has no tracking query parameter, and
\* has every other query parameter of the URL, in the original order, with
\* its name and its value as written (a parameter with an empty value too).
C13_TrackingDroppedOthersVerbatim ==
  CanonDone =>
    LET NotTracking(seg) == ~IsTrackingSegment(seg)
    IN /\ \A i \in 1..Len(QuerySegments(f_out.out)) :
            NotTracking(QuerySegments(f_out.out)[i])
       /\ QuerySegments(f_out.out) = SelectSeq(QuerySegments(f_in.url), NotTracking)

\* C14: canonicalizing a canonical URL changes nothing.
C14_CanonicalIdempotent ==
  (f_in.fn = "canonical_url" /\ f_out.pc = "reapplied") => f_out.again = f_out.out

(***************************************************************************)
(* The parser registry: detection scores of the strategies and choose().    *)
(* A document is the set of selectors that match in it and the length of    *)
(* its text; a URL is searched for a substring token by token.              *)
(***************************************************************************)
\* the bound on the number of selectors that match in a document
MaxMarks == 2

U_Neutral == <<"https", "://", "example.com", "/jobs">>

RegistryUrls == { U_GreenhousePlain, U_Lever, U_Ashby, U_Example, U_YcJob, U_Neutral }

\* needle in tok
TokHas(tok, needle) ==
  <<tok, needle>> \in
    { <<"boards.greenhouse.io", "greenhouse.io">>, <<"boards.greenhouse.io", "boards.greenhouse">>,
      <<"jobs.lever.co", "jobs.lever.co">>, <<"jobs.lever.co", "lever.co">>,
      <<"jobs.ashbyhq.com", "ashbyhq.com">>,
      <<"/careers/7", "/careers/">>,
      <<"/acme/jobs/1", "/jobs/">>, <<"/companies/acme/jobs/1", "/jobs/">> }

\* needle in url
InUrl(needle, url) ==
  IF needle = "ycombinator.com/companies/"
  THEN \E i \in 1..(Len(url) - 1) :
         url[i] = "www.ycombinator.com" /\ url[i + 1] = "/companies/acme/jobs/1"
  ELSE \E i \in 1..Len(url) : TokHas(url[i], needle)

\* the selectors a document may match: "job-card" is three .job-card elements
Marks ==
  { "job-card", "form", "h1", "main", "content", "job-posting", "posting",
    "section", "yc-title", "yc-prose" }

\* len(body text): short, more than 200, 600 or more
TextLens == { 0, 300, 700 }

RECURSIVE SubsetsUpTo(_, _)
\* the subsets of S with at most n elements
SubsetsUpTo(S, n) ==
  IF n = 0 THEN { {} }
  ELSE LET smaller == SubsetsUpTo(S, n - 1)
       IN smaller \cup { m \cup {x} : m \in smaller, x \in S }

Docs == [ marks : SubsetsUpTo(Marks, MaxMarks), text_len : TextLens ]

\* doc.select_one / doc.select of a selector group
Selects(doc, group) == doc.marks \cap group # {}

Bonus(cond, n) == IF cond THEN n ELSE 0

\* HubOrFormParser.detect
detect_hub(url, doc) ==
  Bonus(Selects(doc, {"job-card", "jobs-list", "data-job", "data-job-card",
                      "careers-list", "openings", "positions"}), 30)
  + Bonus(Selects(doc, {"form"}) /\ doc.text_len < 600, 25)

\* YcJobParser.detect
detect_yc(url, doc) ==
  Bonus(InUrl("ycombinator.com/companies/", url) /\ InUrl("/jobs/", url), 60)
  + Bonus(Selects(doc, {"yc-title"}), 25)
  + Bonus(Selects(doc, {"yc-prose"}), 15)

\* AshbyJobParser.detect
detect_ashby(url, doc) ==
  Bonus(InUrl("ashbyhq.com", url) \/ InUrl("/careers/", url) \/ Selects(doc, {"title-ashby"}), 30)
  + Bonus(Selects(doc, {"job-posting", "data-ashby-job-posting"}), 40)
  + Bonus(Selects(doc, {"h1", "yc-title"}), 10)
  + Bonus(Selects(doc, {"main", "article", "content"}), 10)

\* LeverJobParser.detect
detect_lever(url, doc) ==
  Bonus(InUrl("jobs.lever.co", url) \/ InUrl("lever.co", url), 40)
  + Bonus(Selects(doc, {"posting"}), 30)
  + Bonus(Selects(doc, {"posting-headline"}), 10)
  + Bonus(Selects(doc, {"section", "posting-description"}), 10)

\* GreenhouseJobParser.detect
detect_greenhouse(url, doc) ==
  Bonus(InUrl("greenhouse.io", url) \/ InUrl("boards.greenhouse", url), 40)
  + Bonus(Selects(doc, {"app", "content", "application", "opening", "job"}), 30)
  + Bonus(Selects(doc, {"h1", "yc-title", "h2"}), 10)

\* a variant of detect_generic that scores a long text above a bare heading
detect_generic_scores_high(url, doc) == Bonus(doc.text_len > 200, 20)

\* GenericHtmlParser.detect
detect_generic(url, doc) == Bonus(doc.text_len > 200, 10)

\* p.detect(url, doc), by the name of the strategy
detect(p, url, doc) ==
  CASE p = "redirect_hub" -> detect_hub(url, doc)
    [] p = "yc_job" -> detect_yc(url, doc)
    [] p = "ashby_job" -> detect_ashby(url, doc)
    [] p = "lever_job" -> detect_lever(url, doc)
    [] p = "greenhouse_job" -> detect_greenhouse(url, doc)
    [] p = "generic_html" -> detect_generic(url, doc)

SinglePostingParsers == <<"yc_job", "ashby_job", "lever_job", "greenhouse_job", "generic_html">>

\* registration orders: the service's, and two with the hub/form strategy
Registries ==
  { << >>, SinglePostingParsers, SinglePostingParsers \o <<"redirect_hub">>,
    <<"redirect_hub">> \o SinglePostingParsers }

\* the strategy whose detect raises on the document, if any
Raisers == { "none", "yc_job", "greenhouse_job", "redirect_hub" }

\* try: dr = p.detect(url, doc)  except Exception: dr = DetectionResult(score=0, ...)
DetectionOf(p, in) == IF p = in.raiser THEN 0 ELSE detect(p, in.url, in.doc)

RECURSIVE ChooseLoopLastWins(_, _, _)
\* a variant of ChooseLoop in which a strategy with an equal score replaces the best one
ChooseLoopLastWins(in, i, best) ==
  IF i > Len(in.parsers) THEN best
  ELSE LET p == in.parsers[i]
           dr == DetectionOf(p, in)
       IN IF best = << >> \/ dr >= best[1].score
          THEN ChooseLoopLastWins(in, i + 1, << [ parser |-> p, score |-> dr ] >>)
          ELSE ChooseLoopLastWins(in, i + 1, best)

RECURSIVE ChooseLoop(_, _, _)
\* for p in self._parsers: ... if best is None or dr.score > best[1].score: best = (p, dr)
ChooseLoop(in, i, best) ==
  IF i > Len(in.parsers) THEN best
  ELSE LET p == in.parsers[i]
           dr == DetectionOf(p, in)
       IN IF best = << >> \/ dr > best[1].score
          THEN ChooseLoop(in, i + 1, << [ parser |-> p, score |-> dr ] >>)
          ELSE ChooseLoop(in, i + 1, best)

\* ParserRegistry.choose: << >> is the AssertionError of an empty registry
choose(in) == ChooseLoop(in, 1, << >>)

\* parser.parse(url, doc): the parser and the warnings of the ParsedJob
parse_warnings(p) == IF p = "redirect_hub" THEN <<"hub_or_form_detected">> ELSE << >>

RegistryInit ==
  /\ instances = {}
  /\ \E parsers \in Registries, url \in RegistryUrls, doc \in Docs, raiser \in Raisers :
       f_in = [ fn |-> "choose", parsers |-> parsers, url |-> url, doc |-> doc,
                raiser |-> raiser ]
  /\ f_out = [ pc |-> "call" ]
  /\ StreamIdle /\ BatchIdle /\ EnrichIdle /\ ParseIdle

\* parser, det = registry.choose(url, soup)
RegistryChoose ==
  /\ f_in.fn = "choose" /\ f_out.pc = "call"
  /\ \E best \in {choose(f_in)} :
       f_out' = IF best = << >> THEN [ pc |-> "raised" ]
                ELSE [ pc |-> "chosen", parser |-> best[1].parser, score |-> best[1].score ]
  /\ UNCHANGED <<instances, f_in, streamVars, batchVars, enrichVars, parseVars>>

\* parsed = parser.parse(url, soup)
RegistryParse ==
  /\ f_in.fn = "choose" /\ f_out.pc = "chosen"
  /\ f_out' = [ pc |-> "parsed", parser |-> f_out.parser, score |-> f_out.score,
                warnings |-> parse_warnings(f_out.parser) ]
  /\ UNCHANGED <<instances, f_in, streamVars, batchVars, enrichVars, parseVars>>

RegistryNext == RegistryChoose \/ RegistryParse

SpecRegistry == RegistryInit /\ [][RegistryNext]_vars

RegistryChosen == f_in.fn = "choose" /\ f_out.pc \in {"chosen", "parsed"}

MaxScore(in) ==
  CHOOSE m \in { DetectionOf(in.parsers[i], in) : i \in 1..Len(in.parsers) } :
    \A i \in 1..Len(in.parsers) : DetectionOf(in.parsers[i], in) <= m

\* C15: choose returns the first registered strategy among those with the
\* maximum detection score, a strategy whose detect raises counting as 0;
\* the result is determined by the registration order, the URL and the document.
C15_ChooseFirstMaximum ==
  RegistryChosen =>
    \E i \in 1..Len(f_in.parsers) :
      /\ f_out.parser = f_in.parsers[i]
      /\ f_out.score = MaxScore(f_in)
      /\ DetectionOf(f_in.parsers[i], f_in) = MaxScore(f_in)
      /\ \A j \in 1..(i - 1) : DetectionOf(f_in.parsers[j], f_in) < MaxScore(f_in)

\* two strategies tie at the maximum, behind a first strategy whose detect raises
C15_Witness ==
  /\ RegistryChosen
  /\ f_in.raiser = f_in.parsers[1]
  /\ \E i, j \in 2..Len(f_in.parsers) :
       /\ i < j
       /\ DetectionOf(f_in.parsers[i], f_in) = MaxScore(f_in)
       /\ DetectionOf(f_in.parsers[j], f_in) = MaxScore(f_in)
       /\ f_out.parser = f_in.parsers[i]
       /\ MaxScore(f_in) > 0

\* the containers the vendor strategies look for, headings and main/article apart
VendorContainers ==
  { "job-posting", "data-ashby-job-posting", "posting", "posting-headline",
    "posting-description", "section", "app", "content", "application", "opening",
    "job", "yc-title", "yc-prose" }

HubDocument(doc) == "job-card" \in doc.marks /\ ~Selects(doc, VendorContainers)

\* C16: for any URL and any document with three .job-card elements and no
\* vendor-specific container, the hub/form strategy scores strictly higher
\* than every single-posting strategy, and the ParsedJob of the hub/form
\* strategy carries the warning "hub_or_form_detected".
C16_HubOutscoresSinglePosting ==
  (f_in.fn = "choose" /\ f_out.pc # "call" /\ HubDocument(f_in.doc)) =>
    /\ \A p \in Range(SinglePostingParsers) :
         detect("redirect_hub", f_in.url, f_in.doc) > detect(p, f_in.url, f_in.doc)
    /\ (f_out.pc = "parsed" /\ f_out.parser = "redirect_hub") =>
         "hub_or_form_detected" \in Range(f_out.warnings)

(***************************************************************************)
(* The filter tests of search_jobs and search_jobs_stream applied to one    *)
(* record, and _location_match applied on its own.                          *)
(***************************************************************************)
T_USA == <<"u", "s", "a">>

\* a record in Berlin whose tag contains the letters "us"
berlinRust == [waA EXCEPT !.tags = <<T_rust>>]

FilterPool == { hnA, hnB, ycA, ycB, waA, berlinRust }

FilterInputs ==
  [ location : { T_Empty, T_blank, T_US, T_USA, T_BerlinDE },
    remote_only : BOOLEAN,
    tags : { << >>, <<T_blank>>, <<T_PythonSp, T_blank>>, <<T_rust>> } ]

FilterInit ==
  /\ instances = {}
  /\ \E job \in FilterPool, filter \in FilterInputs :
       f_in = [ fn |-> "filter", job |-> job, filter |-> filter ]
  /\ f_out = [ pc |-> "call" ]
  /\ StreamIdle /\ BatchIdle /\ EnrichIdle /\ ParseIdle

\* the three tests of the loop over the records of a source
FilterApply ==
  /\ f_in.fn = "filter" /\ f_out.pc = "call"
  /\ \E norm \in {normalize_tags(f_in.filter.tags)} :
       f_out' = [ pc |-> "filtered",
                  kept |-> FilterKeeps(f_in.job, f_in.filter.remote_only,
                                       f_in.filter.location, norm) ]
  /\ UNCHANGED <<instances, f_in, streamVars, batchVars, enrichVars, parseVars>>

\* self._location_match(j, location)
LocationMatchApply ==
  /\ f_in.fn = "filter" /\ f_out.pc = "call"
  /\ f_out' = [ pc |-> "matched", match |-> location_match(f_in.job, f_in.filter.location) ]
  /\ UNCHANGED <<instances, f_in, streamVars, batchVars, enrichVars, parseVars>>

FilterNext == FilterApply \/ LocationMatchApply

SpecFilter == FilterInit /\ [][FilterNext]_vars

\* the lower-cased concatenation of location, title, company and tags
Blob(j) == LowerS(JoinWith(<<j.location, j.title, j.company>> \o j.tags, <<" ">>))

\* the requested term and every alias group it belongs to
ExpandedTerms(term) ==
  {term} \cup UNION { aliases[i].vals \cup {aliases[i].k} :
                      i \in { n \in DOMAIN aliases : term \in aliases[n].vals \cup {aliases[n].k} } }

\* C17: the location filter matches exactly when a member of the alias
\* expansion of the requested term occurs in the lower-cased concatenation of
\* location, title, company and tags; with "US" a record located "Remote (US)"
\* is kept and a record located "Berlin, DE" is excluded; an empty or
\* whitespace-only location matches every record.
C17_LocationFilter ==
  (f_in.fn = "filter" /\ f_out.pc = "matched") =>
    LET want == LowerS(StripS(f_in.filter.location))
    IN /\ want # T_Empty =>
            (f_out.match <=> \E term \in ExpandedTerms(want) : Contains(Blob(f_in.job), term))
       /\ (f_in.filter.location = T_US /\ f_in.job.location = T_RemoteUS) => f_out.match
       /\ (f_in.filter.location = T_US /\ f_in.job.location = T_BerlinDE) => ~f_out.match
       /\ want = T_Empty => f_out.match

(***************************************************************************)
(* The filters at their two call sites: the stream, the batch call and the  *)
(* filter tests on one record, in one specification.                        *)
(***************************************************************************)
SearchInit == StreamInit \/ BatchInit \/ FilterInit

SearchNext == StreamNext \/ BatchNext \/ FilterNext

SpecSearch == SearchInit /\ [][SearchNext]_vars

TrimmedLower(tags) == { LowerS(StripS(tags[i])) : i \in DOMAIN tags }

\* the requested filters as stated: every requested tag, trimmed and
\* lower-cased, is among the record's trimmed, lower-cased tags
SatisfiesAsStated(j, filter) ==
  /\ filter.remote_only => j.remote_ok
  /\ TrimmedLower(filter.tags) \subseteq TrimmedLower(j.tags)
  /\ location_match(j, filter.location)

\* the requested filters, a blank requested tag asking for nothing
Satisfies(j, filter) ==
  /\ filter.remote_only => j.remote_ok
  /\ (TrimmedLower(filter.tags) \ {T_Empty}) \subseteq TrimmedLower(j.tags)
  /\ location_match(j, filter.location)

\* the records the sources that did not fail returned
ReturnedBySources ==
  UNION { Range(b_tasks[i].res) : i \in { n \in DOMAIN b_tasks : b_tasks[n].pc = "done" } }

\* the stream takes the next record of the page: it is yielded or skipped
StreamTakesRecord ==
  /\ s_frame.pc = "jobs"
  /\ s_frame.page_jobs # << >>
  /\ s_frame'.page_jobs = Tail(s_frame.page_jobs)

StreamYieldsRecord ==
  /\ Len(events') = Len(events) + 1
  /\ events'[Len(events')].type = "job"
  /\ events'[Len(events')].data = Head(s_frame.page_jobs)

MaxSources == 2

\* self._crawlers
ServiceCrawlers == { "ycombinator", "hackernews", "workatastartup", "yc_companies" }

ServiceSourceNames == { "ycombinator", "hackernews", "nosuch" }

\* the source label the crawler of a key stamps on its records
ServiceSourceLabel(key) ==
  CASE key = "ycombinator" -> "Y Combinator"
    [] key = "hackernews" -> "Hacker News Jobs"
    [] key = "workatastartup" -> "Work at a Startup"
    [] OTHER -> "Unknown"

\* the lists a crawl of the source can return
ServiceCrawlLists(key) ==
  CASE key = "ycombinator" -> { <<ycA>>, <<ycA, ycB>> }
    [] key = "hackernews" -> { << >>, <<hnA, hnB>> }
    [] OTHER -> { << >>, <<waA>> }

\* the characters of a description
DescText(d) ==
  CASE d = "short" -> <<"s", "h", "o", "r", "t">>
    [] d = "  " -> <<" ", " ">>
    [] OTHER -> << >>

\* the two tests of run_source
ServiceKeeps(j, remote_only, location) ==
  /\ ~(remote_only /\ ~j.remote_ok)
  /\ ~(/\ location # T_Empty /\ StripS(location) # T_Empty
       /\ ~Contains(LowerS(j.location \o <<" ">> \o DescText(j.description)), LowerS(location)))

\* JobService._canonical_key of services/job_service.py
canonical_key(j) == IF j.url # << >> THEN <<j.url>> ELSE <<j.title, <<"@">>, j.company>>

RECURSIVE ServiceDedupeLoop(_, _, _)
ServiceDedupeLoop(jobs, seen, out) ==
  IF jobs = << >> THEN out
  ELSE IF canonical_key(Head(jobs)) \in seen
       THEN ServiceDedupeLoop(Tail(jobs), seen, out)
       ELSE ServiceDedupeLoop(Tail(jobs), seen \cup {canonical_key(Head(jobs))},
                              Append(out, Head(jobs)))

\* JobService._dedupe_jobs of services/job_service.py
dedupe_jobs(jobs) == ServiceDedupeLoop(jobs, {}, << >>)

\* d[key] = value
DictSet(d, key, value) == [ k \in DOMAIN d \cup {key} |-> IF k = key THEN value ELSE d[k] ]

EmptyDict == [ k \in {} |-> 0 ]

ServiceSearchInit ==
  /\ instances = {}
  /\ \E sources \in ListsUpTo(ServiceSourceNames, MaxSources), remote_only \in BOOLEAN,
        location \in { T_Empty, T_blank, T_US }, per_source_limit \in { 1, 100 } :
       f_in = [ fn |-> "search_jobs", sources |-> sources, remote_only |-> remote_only,
                location |-> location, per_source_limit |-> per_source_limit ]
  /\ f_out = [ pc |-> "call" ]
  /\ StreamIdle /\ BatchIdle /\ EnrichIdle /\ ParseIdle

\* run_sources = [...]; errors[s] = "unknown source"; gather(*(run_source(s) ...))
ServiceSearchCall ==
  /\ f_in.fn = "search_jobs" /\ f_out.pc = "call"
  /\ LET known(s) == s \in ServiceCrawlers
         unknown == { f_in.sources[i] : i \in { n \in DOMAIN f_in.sources :
                                                 ~known(f_in.sources[n]) } }
         run_sources == SelectSeq(f_in.sources, known)
     IN f_out' = [ pc |-> "gather",
                   tasks |-> [ i \in DOMAIN run_sources |->
                                 [ key |-> run_sources[i], pc |-> "crawl", out |-> << >> ] ],
                   counts |-> EmptyDict,
                   errors |-> [ k \in unknown |-> "unknown source" ] ]
  /\ UNCHANGED <<instances, f_in, streamVars, batchVars, enrichVars, parseVars>>

\* a variant of ServiceRunSourceRaises that lets the task end without an errors entry
ServiceRunSourceRaisesSilently(i) ==
  /\ f_in.fn = "search_jobs" /\ f_out.pc = "gather"
  /\ i \in DOMAIN f_out.tasks /\ f_out.tasks[i].pc = "crawl"
  /\ f_out' = [f_out EXCEPT !.tasks[i].pc = "failed"]
  /\ UNCHANGED <<instances, f_in, streamVars, batchVars, enrichVars, parseVars>>

\* run_source: the crawl returns; out = the filtered res[:per_source_limit];
\* counts[key] = len(out)
ServiceRunSourceReturns(i) ==
  /\ f_in.fn = "search_jobs" /\ f_out.pc = "gather"
  /\ i \in DOMAIN f_out.tasks /\ f_out.tasks[i].pc = "crawl"
  /\ \E res \in ServiceCrawlLists(f_out.tasks[i].key) :
       LET n == IF f_in.per_source_limit < Len(res) THEN f_in.per_source_limit ELSE Len(res)
           keeps(j) == ServiceKeeps(j, f_in.remote_only, f_in.location)
           out == SelectSeq(SubSeq(res, 1, n), keeps)
       IN f_out' = [f_out EXCEPT !.tasks[i].pc = "done", !.tasks[i].out = out,
                                 !.counts = DictSet(@, f_out.tasks[i].key, Len(out))]
  /\ UNCHANGED <<instances, f_in, streamVars, batchVars, enrichVars, parseVars>>

\* run_source: the crawl raises; errors[key] = "..."; return []
ServiceRunSourceRaises(i) ==
  /\ f_in.fn = "search_jobs" /\ f_out.pc = "gather"
  /\ i \in DOMAIN f_out.tasks /\ f_out.tasks[i].pc = "crawl"
  /\ f_out' = [f_out EXCEPT !.tasks[i].pc = "failed",
                            !.errors = DictSet(@, f_out.tasks[i].key, "Exception")]
  /\ UNCHANGED <<instances, f_in, streamVars, batchVars, enrichVars, parseVars>>

RECURSIVE ServiceExtend(_, _)
\* for batch in results: jobs.extend(batch)
ServiceExtend(tasks, i) ==
  IF i > Len(tasks) THEN << >> ELSE tasks[i].out \o ServiceExtend(tasks, i + 1)

\* jobs = self._dedupe_jobs(jobs); return {"jobs": jobs, "metadata": metadata}
ServiceSearchReturns ==
  /\ f_in.fn = "search_jobs" /\ f_out.pc = "gather"
  /\ \A i \in DOMAIN f_out.tasks : f_out.tasks[i].pc # "crawl"
  /\ \E jobs \in {dedupe_jobs(ServiceExtend(f_out.tasks, 1))} :
       f_out' = [ pc |-> "returned", tasks |-> f_out.tasks, jobs |-> jobs,
                  metadata |-> [ countsPerSource |-> f_out.counts,
                                 errors |-> IF DOMAIN f_out.errors = {} THEN << >>
                                            ELSE <<f_out.errors>>,
                                 total |-> Len(jobs) ] ]
  /\ UNCHANGED <<instances, f_in, streamVars, batchVars, enrichVars, parseVars>>

ServiceSearchNext ==
  \/ ServiceSearchCall
  \/ \E i \in 1..MaxSources : ServiceRunSourceReturns(i)
  \/ \E i \in 1..MaxSources : ServiceRunSourceRaises(i)
  \/ ServiceSearchReturns

SpecServiceSearch == ServiceSearchInit /\ [][ServiceSearchNext]_vars

ServiceReturned == f_in.fn = "search_jobs" /\ f_out.pc = "returned"

\* the keys of metadata.errors: None when there is no error
ErrorKeys == IF f_out.metadata.errors = << >> THEN {} ELSE DOMAIN f_out.metadata.errors[1]

CountKeys == DOMAIN f_out.metadata.countsPerSource

RequestedSources == Range(f_in.sources)

TasksOfSource(s) == { i \in DOMAIN f_out.tasks : f_out.tasks[i].key = s }

SourceFailed(s) ==
  s \notin ServiceCrawlers \/ \E i \in TasksOfSource(s) : f_out.tasks[i].pc = "failed"

SourceSucceeded(s) == \E i \in TasksOfSource(s) : f_out.tasks[i].pc = "done"

\* C19 as stated: every requested source that is unknown or whose crawl raised
\* is in metadata.errors and not in countsPerSource, every source whose crawl
\* succeeded is in countsPerSource and not in errors, the records of the
\* failed sources are absent from jobs, and total is the number of jobs.
C19_MetadataPartitionsSources ==
  ServiceReturned =>
    /\ \A s \in RequestedSources :
         /\ SourceFailed(s) => s \in ErrorKeys /\ s \notin CountKeys
         /\ SourceSucceeded(s) => s \in CountKeys /\ s \notin ErrorKeys
         /\ SourceFailed(s) =>
              \A n \in DOMAIN f_out.jobs : f_out.jobs[n].source # ServiceSourceLabel(s)
    /\ f_out.metadata.total = Len(f_out.jobs)

\* C19: every requested source that is unknown or one of whose crawls raised
\* is in metadata.errors, every source one of whose crawls succeeded is in
\* countsPerSource, and nothing else is in either map; a source that is
\* requested once is in exactly one of the two maps; every record of jobs was
\* returned by a crawl that succeeded; total is the number of jobs.
C19_MetadataRecordsOutcomes ==
  ServiceReturned =>
    /\ ErrorKeys = { s \in RequestedSources : SourceFailed(s) }
    /\ CountKeys = { s \in RequestedSources : SourceSucceeded(s) }
    /\ \A s \in RequestedSources :
         Cardinality({ i \in DOMAIN f_in.sources : f_in.sources[i] = s }) = 1 =>
           (s \in ErrorKeys) # (s \in CountKeys)
    /\ \A n \in DOMAIN f_out.jobs :
         \E i \in DOMAIN f_out.tasks :
           f_out.tasks[i].pc = "done" /\ f_out.jobs[n] \in Range(f_out.tasks[i].out)
    /\ f_out.metadata.total = Len(f_out.jobs)

\* a call has returned in which one source is unknown and another one's crawl
\* succeeded with records
C19_Witness ==
  /\ ServiceReturned
  /\ \E s \in RequestedSources : s \notin ServiceCrawlers
  /\ \E s \in RequestedSources : SourceSucceeded(s) /\ ~SourceFailed(s)
  /\ f_out.jobs # << >>

(***************************************************************************)
(* The three ways a JobPosting leaves the service: the result of            *)
(* search_jobs, a job event of search_jobs_stream, the result of            *)
(* parse_job_url.                                                           *)
(***************************************************************************)
ExitsInit == StreamInit \/ BatchInit \/ ParseInit

ExitsNext == StreamNext \/ BatchNext \/ ParseNext

SpecExits == ExitsInit /\ [][ExitsNext]_vars

NamedAndAttributed(j) == j.title # T_Empty /\ j.company # T_Empty

\* parse_job_url has returned the posting built from the registry's ParsedJob
ParseReturnedParsed == p_frame.pc = "returned" /\ p_frame.parsed # << >>

\* C20: every JobPosting that leaves the service (a record of the batch
\* result, after merge and enrichment, the data of a job event, the result of
\* parse_job_url) has a non-empty title and a non-empty company, an empty
\* value having been replaced by "Job Posting" / "Unknown Company".
C20_TitleAndCompanyNeverEmpty ==
  /\ BatchReturned => \A n \in DOMAIN b_frame.result : NamedAndAttributed(b_frame.result[n])
  /\ \A i \in EventsOfType({"job"}) : NamedAndAttributed(events[i].data)
  /\ p_frame.pc = "returned" => NamedAndAttributed(p_frame.result)
  /\ ParseReturnedParsed =>
       /\ p_frame.parsed[1].title = T_Empty => p_frame.result.title = T_JobPosting
       /\ p_frame.parsed[1].company = T_Empty => p_frame.result.company = T_UnknownCompany

(***************************************************************************)
(* Further properties of enrich_details                                     *)
(***************************************************************************)
\* task t can go on without any fetch returning first
CanGoOn(t) ==
  \/ e_tasks[t].pc = "new"
  \/ e_tasks[t].pc = "wait_global" /\ Granted(e_global, t)
  \/ e_tasks[t].pc = "wait_domain" /\ Granted(e_domain[e_tasks[t].domain], t)

\* the tasks that wait for a permit
PendingTasks == { t \in DOMAIN e_tasks : e_tasks[t].pc \in {"wait_global", "wait_domain"} }

\* C21: whenever fewer than 10 fetches are in flight in total and fewer than 4
\* to domain d, a pending task for d can start its fetch: once every task has
\* gone as far as it can without a fetch returning, no task is left waiting
\* while there is room in total and in its domain.
C21_NoStarvationAcrossDomains ==
  (\A t \in DOMAIN e_tasks : ~CanGoOn(t)) =>
    \A t \in PendingTasks :
      ~(/\ Cardinality(InFlight) < GlobalCap
        /\ Cardinality(InFlightTo(e_tasks[t].domain)) < DomainCap)

\* some step of enrich_details can be taken: a call can be made, a task can go
\* on, a fetch can return, or a gather can end
CanAct ==
  \/ \E c \in DOMAIN e_calls : e_calls[c].pc = "idle"
  \/ \E t \in DOMAIN e_tasks : CanGoOn(t)
  \/ InFlight # {}
  \/ \E c \in DOMAIN e_calls :
       /\ e_calls[c].pc = "gather"
       /\ \/ \A t \in TasksOfCall(c) : e_tasks[t].pc = "done"
          \/ \E t \in TasksOfCall(c) : e_tasks[t].pc = "raised"

\* the scenarios of the termination check: one call whose eleven records make
\* both caps bind, next to the small scenarios with every kind of fetch outcome
EnrichFairScenarios ==
  { sc \in EnrichScenarios : Len(sc.lists) = 1 }
  \cup { [ lists |-> << <<ycA, ycA, ycA, ycA, ycA, leverJob, leverJob, leverJob,
                          leverJob, waA, waA>> >>,
           pages |-> FullPage ] }

EnrichFairInit ==
  /\ instances \in {{}, {"ycombinator"}}
  /\ \E scenario \in EnrichFairScenarios :
       /\ e_calls = [ c \in 1..Len(scenario.lists) |->
                        [ pc |-> "idle", pages |-> scenario.pages ] ]
       /\ e_tasks = TasksOf(scenario.lists, 1)
  /\ e_global = Semaphore(GlobalCap)
  /\ e_domain = NoDomainSemaphores
  /\ StreamIdle /\ BatchIdle /\ ParseIdle /\ FnIdle

\* the event loop runs every task that can go on, and every fetch returns: weak
\* fairness of EnrichNext, WF_vars(EnrichNext), with its enabling condition
\* written out as CanAct
SpecEnrichFair ==
  /\ EnrichFairInit /\ [][EnrichNext]_vars
  /\ ([]<>(~CanAct) \/ []<><<EnrichNext>>_vars)

CallEnded(c) == e_calls[c].pc \in {"returned", "raised"}

AllEnded ==
  /\ \A c \in DOMAIN e_calls : CallEnded(c)
  /\ \A t \in DOMAIN e_tasks : e_tasks[t].pc \in {"done", "raised"}

AllPermitsFree ==
  /\ e_global = Semaphore(GlobalCap)
  /\ \A d \in DOMAIN e_domain : e_domain[d] = Semaphore(DomainCap)

\* C22 as stated: if every fetch returns, every enrich_details call completes
\* (no state short of that is a dead end), and when a call has completed all
\* 10 global permits and all 4 permits of every domain semaphore are available
\* again.
C22_CompletesWithAllPermitsFree ==
  /\ (\A c \in DOMAIN e_calls : CallEnded(c)) \/ CanAct
  /\ \A c \in DOMAIN e_calls : CallEnded(c) => AllPermitsFree

\* what enrich_details does guarantee: every call and every one of its tasks
\* ends, whenever no task is waiting or fetching all 10 global permits and all
\* 4 permits of every domain semaphore are available, and the tasks of a call
\* that has returned hold none
EnrichTerminatesAndReleases ==
  /\ <>AllEnded
  /\ []((PendingTasks \cup InFlight = {}) => AllPermitsFree)
  /\ [](\A c \in DOMAIN e_calls :
          e_calls[c].pc = "returned" =>
            \A t \in TasksOfCall(c) : t \notin PendingTasks \cup InFlight)

(***************************************************************************)
(* Further properties of search_jobs                                        *)
(***************************************************************************)
\* the number of records the caller allows to be enriched
EnrichLimitOf ==
  IF b_args.enrich_limit = << >> THEN DefaultEnrichLimit ELSE b_args.enrich_limit[1]

RECURSIVE SumOfCounts(_)
\* the sum of the counts of the page_complete events at the positions S
SumOfCounts(S) ==
  IF S = {} THEN 0
  ELSE LET i == CHOOSE k \in S : TRUE
       IN events[i].count + SumOfCounts(S \ {i})

\* the positions between a and b of the events of a type in T
Between(a, b, T) == { k \in EventsOfType(T) : a < k /\ k < b }

\* each page_complete's count is the number of job events since its page_start
PageCountsAgree ==
  \A i \in EventsOfType({"page_complete"}) :
    LET p == LastBefore(i, {"page_start"})
    IN /\ p # 0
       /\ SameSourcePage(events[p], events[i])
       /\ events[i].count = Cardinality(Between(p, i, {"job"}))

\* C27 as stated: each page_complete's count is the number of job events since
\* the matching page_start; each source_complete's total is the sum of the
\* page_complete counts of that source and its pages the number of page_start
\* events of that source; complete.pages is the number of page_start events
\* and complete.sources the number of requested sources; every page_start is
\* followed by exactly one page_complete for the same source and page.
C27_CountersAgreeBySource ==
  /\ PageCountsAgree
  /\ \A i \in EventsOfType({"source_complete"}) :
       /\ events[i].total
            = SumOfCounts({ k \in Between(0, i, {"page_complete"}) :
                              events[k].source = events[i].source })
       /\ events[i].pages
            = Cardinality({ k \in Between(0, i, {"page_start"}) :
                              events[k].source = events[i].source })
  /\ \A i \in EventsOfType({"complete"}) :
       /\ events[i].pages = Cardinality(EventsOfType({"page_start"}))
       /\ events[i].sources = Len(s_args.sources)
  /\ s_frame.pc = "done" =>
       \A i \in EventsOfType({"page_start"}) :
         Cardinality({ k \in EventsOfType({"page_complete"}) :
                         i < k /\ SameSourcePage(events[k], events[i]) }) = 1

\* the first event after position i that ends the page started there, or 0
PageEnd(i) ==
  LET S == { k \in EventsOfType({"page_start", "source_complete"}) : i < k }
  IN IF S = {} THEN 0 ELSE CHOOSE k \in S : \A m \in S : k <= m

\* C27: the counters agree with the events within each source's block of the
\* stream (a source named twice is streamed twice, each time with counters of
\* its own): each page_complete's count is the number of job events since its
\* page_start; each source_complete's total is the sum of the page_complete
\* counts since its source_start and its pages the number of page_start
\* events since then; complete.pages is the number of all page_start events
\* and complete.sources the number of non-blank names in sources; between a
\* page_start and the next page_start or source_complete lies exactly one
\* page_complete, for the same source and page
C27_CountersAgreeWithinBlock ==
  /\ PageCountsAgree
  /\ \A i \in EventsOfType({"source_complete"}) :
       LET b == LastBefore(i, {"source_start"})
       IN /\ b # 0 /\ events[b].source = events[i].source
          /\ events[i].total = SumOfCounts(Between(b, i, {"page_complete"}))
          /\ events[i].pages = Cardinality(Between(b, i, {"page_start"}))
  /\ \A i \in EventsOfType({"complete"}) :
       /\ events[i].pages = Cardinality(EventsOfType({"page_start"}))
       /\ events[i].sources
            = Cardinality({ k \in DOMAIN s_args.sources :
                              NormSource(s_args.sources[k]) # "" })
  /\ \A i \in EventsOfType({"page_start"}) :
       PageEnd(i) # 0 =>
         /\ Cardinality(Between(i, PageEnd(i), {"page_complete"})) = 1
         /\ \A k \in Between(i, PageEnd(i), {"page_complete"}) :
              SameSourcePage(events[k], events[i])

\* a source named twice was streamed twice over two pages with job events, and
\* a page of it failed
C27_Witness ==
  /\ s_frame.pc = "done"
  /\ s_args.sources = <<"ycombinator", "ycombinator">>
  /\ \A i \in EventsOfType({"source_complete"}) :
       events[i].pages = 2 /\ events[i].total >= 1
  /\ EventsOfType({"error"}) # {}

(***************************************************************************)
(* Further properties of the parser registry                               *)
(***************************************************************************)
VendorParsers == {"yc_job", "ashby_job", "lever_job", "greenhouse_job"}

GenericLast(parsers) ==
  parsers # << >> /\ parsers[Len(parsers)] = "generic_html"

\* some vendor strategy of the registry has a non-zero detection score
VendorMatches(in) ==
  \E i \in 1..Len(in.parsers) :
    in.parsers[i] \in VendorParsers /\ DetectionOf(in.parsers[i], in) # 0

\* C28: with the generic fallback registered last, whenever some vendor
\* strategy (YC, Ashby, Lever, Greenhouse) has a non-zero detection score for
\* the URL and the document, choose does not select the generic fallback,
\* whatever the length of the text; in the registry of parse_job_url it
\* selects a vendor strategy
C28_GenericOnlyWhenNoVendorMatches ==
  (RegistryChosen /\ GenericLast(f_in.parsers) /\ VendorMatches(f_in)) =>
    /\ f_out.parser # "generic_html"
    /\ f_in.parsers = SinglePostingParsers => f_out.parser \in VendorParsers

\* in the registry of parse_job_url the best vendor score is 10, the score of
\* the generic strategy for the long text of the document, and a vendor
\* strategy is selected
C28_Witness ==
  /\ RegistryChosen
  /\ f_in.parsers = SinglePostingParsers
  /\ f_in.doc.text_len > 200
  /\ VendorMatches(f_in)
  /\ MaxScore(f_in) = detect_generic(f_in.url, f_in.doc)
  /\ f_out.parser \in VendorParsers

(***************************************************************************)
(* The crawler cache (crawlers/base.py, crawlers/workatastartup.py) under   *)
(* crawl calls and search_jobs calls made one after the other on one        *)
(* service.  The records are objects: the cache, the list a crawl returns   *)
(* and the list search_jobs works on hold the same JobPosting objects, so   *)
(* a list is a list of object numbers and the heap gives the fields.        *)
(***************************************************************************)
\* the bound on the clock, in hours
MaxClock == 2

\* the bound on the number of calls made on the service
MaxCalls == 2

\* BaseCrawler.__init__: cache_ttl = timedelta(hours=1)
CacheTtl == 1

U_AshbyPlain ==
  <<"https", "://", "jobs.ashbyhq.com", "/acme/job", "?", "ashby_jid", "=", "123">>

\* a second listing of the posting of waA, and a posting of another company
waDup ==
  [waA EXCEPT !.url = U_AshbyPlain, !.id = <<"job", U_AshbyPlain>>,
              !.tags = <<T_go>>, !.remote_ok = TRUE]

waOther ==
  [waA EXCEPT !.url = U_Lever, !.id = <<"job", U_Lever>>,
              !.company = T_Dev, !.title = T_python]

\* what the site lists when it is fetched; << >> is also what a failed fetch leaves
CacheSiteLists == { << >>, <<waA, waDup>>, <<waA, waOther>> }

CacheKeywords == { << >>, <<T_Acme>> }

NoFilter == [ remote_only |-> FALSE, tags |-> << >> ]

CacheFilters ==
  { NoFilter,
    [ remote_only |-> TRUE, tags |-> << >> ],
    [ remote_only |-> FALSE, tags |-> <<T_go>> ] }

\* the calls made: crawl(keywords) on the crawler, or search_jobs on the service
\* with the crawler as its one source
CacheCalls ==
  [ kind : {"crawl"}, keywords : CacheKeywords, filter : {NoFilter}, enrich : {FALSE} ]
  \cup [ kind : {"search"}, keywords : {<< >>}, filter : CacheFilters,
         enrich : BOOLEAN ]

NoCall == [ kind |-> "none", keywords |-> << >>, filter |-> NoFilter, enrich |-> FALSE ]

\* the page an enrichment fetch gets
CachePages == { html \in HtmlDocs : html.node /\ ~html.raises /\ html.text # "" }

\* BaseCrawler.is_cache_valid, together with "self.KEY in self.cache"
is_cache_valid(last_crawl, now) ==
  last_crawl # << >> /\ now - last_crawl[1] < CacheTtl

\* WorkAtStartupCrawler._filter on the objects of a list
wa_matches(job, keywords) ==
  LET searchable_text ==
        LowerS(job.title \o <<" ">> \o job.company \o <<" ">> \o DescText(job.description))
  IN \E i \in 1..Len(keywords) : Contains(searchable_text, LowerS(keywords[i]))

wa_filter(jobs, heap, keywords) ==
  IF keywords = << >> THEN jobs
  ELSE SelectSeq(jobs, LAMBDA o : wa_matches(heap[o], keywords))

ValuesOf(jobs, heap) == [ i \in 1..Len(jobs) |-> heap[jobs[i]] ]

\* _run_source: "if not j.source_key: j.source_key = source_key", on the objects
SetSourceKey(jobs, heap) ==
  [ o \in DOMAIN heap |->
      IF o \in Range(jobs) /\ heap[o].source_key = ""
      THEN [heap[o] EXCEPT !.source_key = "workatastartup"] ELSE heap[o] ]

RECURSIVE DedupeInPlace(_, _, _, _)
\* _dedupe_jobs_merge_tags on objects: a duplicate is merged into the kept object
DedupeInPlace(jobs, heap, seen, out) ==
  IF jobs = << >> THEN [ heap |-> heap, out |-> out ]
  ELSE LET j == Head(jobs)
           key == DedupeKey(heap[j])
           idx == SeenIndex(seen, key)
       IN IF idx # 0
          THEN DedupeInPlace(Tail(jobs),
                             [heap EXCEPT ![out[idx]] = MergeDuplicate(heap[out[idx]], heap[j])],
                             seen, out)
          ELSE DedupeInPlace(Tail(jobs), heap, Append(seen, key), Append(out, j))

\* enrich_details on objects: the handler assigns to the fields of the object
EnrichInPlace(jobs, heap, html) ==
  [ o \in DOMAIN heap |->
      IF o \in Range(jobs) /\ EnrichFetches(heap[o])
      THEN AfterFetch(heap[o], html) ELSE heap[o] ]

\* the list search_jobs returns for the list a crawl returned, without enrichment,
\* when the records are as the crawler parsed them
SearchOnFresh(records, call) ==
  LET keyed == [ i \in 1..Len(records) |->
                   IF records[i].source_key = ""
                   THEN [records[i] EXCEPT !.source_key = "workatastartup"]
                   ELSE records[i] ]
      matching == IF call.keywords = << >> THEN keyed
                  ELSE SelectSeq(keyed, LAMBDA r : wa_matches(r, call.keywords))
      kept == SelectSeq(matching,
                LAMBDA r : FilterKeeps(r, call.filter.remote_only, T_Empty,
                                       normalize_tags(call.filter.tags)))
  IN dedupe_jobs_merge_tags(kept)

CacheInit ==
  /\ instances = {"workatastartup"}
  /\ f_in = [ fn |-> "cache" ]
  /\ f_out = [ pc |-> "idle", now |-> 0, calls |-> 0, fetches |-> 0,
               heap |-> << >>,
               cache |-> << >>, has_cache |-> FALSE, last_crawl |-> << >>,
               parsed |-> << >>,
               call |-> NoCall, at |-> 0, valid |-> FALSE, fetched |-> FALSE,
               ret |-> << >>, result |-> << >> ]
  /\ StreamIdle /\ BatchIdle /\ EnrichIdle /\ ParseIdle

\* an hour passes
CacheTick ==
  /\ f_in.fn = "cache"
  /\ f_out.pc \in {"idle", "fetching"}
  /\ f_out.now < MaxClock
  /\ f_out' = [f_out EXCEPT !.now = @ + 1]
  /\ UNCHANGED <<instances, f_in, streamVars, batchVars, enrichVars, parseVars>>

\* where a call goes on once crawl has returned jobs: crawl called on its own
\* returns them; search_jobs goes on to filter, dedupe and enrich them
AfterCrawl(frame, jobs) ==
  IF frame.call.kind = "crawl"
  THEN [frame EXCEPT !.pc = "idle", !.ret = jobs, !.result = ValuesOf(jobs, frame.heap)]
  ELSE [frame EXCEPT !.pc = "aggregate", !.ret = jobs]

\* crawl is entered: with a valid cache entry it returns the keyword filter of the
\* cached list, else it starts to fetch
CrawlBegin ==
  /\ f_in.fn = "cache"
  /\ f_out.pc = "idle"
  /\ f_out.calls < MaxCalls
  /\ \E call \in CacheCalls :
     \E valid \in {is_cache_valid(f_out.last_crawl, f_out.now) /\ f_out.has_cache} :
     \E frame \in {[f_out EXCEPT !.calls = @ + 1, !.call = call, !.at = f_out.now,
                                  !.valid = valid, !.fetched = FALSE,
                                  !.ret = << >>, !.result = << >>]} :
     \E jobs \in {wa_filter(f_out.cache, f_out.heap, call.keywords)} :
       f_out' = IF valid THEN AfterCrawl(frame, jobs)
                ELSE [frame EXCEPT !.pc = "fetching"]
  /\ UNCHANGED <<instances, f_in, streamVars, batchVars, enrichVars, parseVars>>

\* a variant of CrawlFetched that caches the list it returns
CrawlFetchedCachesFiltered ==
  /\ f_in.fn = "cache"
  /\ f_out.pc = "fetching"
  /\ \E site \in CacheSiteLists :
     \E jobs \in {[ i \in 1..Len(site) |-> Len(f_out.heap) + i ]} :
     \E heap \in {f_out.heap \o site} :
     \E filtered \in {wa_filter(jobs, heap, f_out.call.keywords)} :
     \E frame \in {[f_out EXCEPT !.heap = heap, !.fetches = @ + 1, !.fetched = TRUE,
                                  !.cache = filtered, !.has_cache = TRUE,
                                  !.last_crawl = <<f_out.now>>, !.parsed = site]} :
       f_out' = AfterCrawl(frame, filtered)
  /\ UNCHANGED <<instances, f_in, streamVars, batchVars, enrichVars, parseVars>>

\* the pages are fetched and parsed into new objects: self.cache[KEY] = jobs,
\* self.last_crawl[KEY] = now, return self._filter(jobs, keywords)
CrawlFetched ==
  /\ f_in.fn = "cache"
  /\ f_out.pc = "fetching"
  /\ \E site \in CacheSiteLists :
     \E jobs \in {[ i \in 1..Len(site) |-> Len(f_out.heap) + i ]} :
     \E heap \in {f_out.heap \o site} :
     \E filtered \in {wa_filter(jobs, heap, f_out.call.keywords)} :
     \E frame \in {[f_out EXCEPT !.heap = heap, !.fetches = @ + 1, !.fetched = TRUE,
                                  !.cache = jobs, !.has_cache = TRUE,
                                  !.last_crawl = <<f_out.now>>, !.parsed = site]} :
       f_out' = AfterCrawl(frame, filtered)
  /\ UNCHANGED <<instances, f_in, streamVars, batchVars, enrichVars, parseVars>>

\* search_jobs after _run_source got the list (shorter than per_source_limit):
\* source_key is set, the records are filtered, deduped and, if asked for, enriched
SearchAggregate ==
  /\ f_in.fn = "cache"
  /\ f_out.pc = "aggregate"
  /\ \E html \in CachePages :
     \E keyed \in {SetSourceKey(f_out.ret, f_out.heap)} :
     \E norm \in {normalize_tags(f_out.call.filter.tags)} :
     \E kept \in {SelectSeq(f_out.ret,
                     LAMBDA o : FilterKeeps(keyed[o], f_out.call.filter.remote_only,
                                            T_Empty, norm))} :
     \E deduped \in {DedupeInPlace(kept, keyed, << >>, << >>)} :
     \E heap \in {IF f_out.call.enrich
                   THEN EnrichInPlace(deduped.out, deduped.heap, html)
                   ELSE deduped.heap} :
       f_out' = [f_out EXCEPT !.pc = "idle", !.heap = heap,
                              !.result = ValuesOf(deduped.out, heap)]
  /\ UNCHANGED <<instances, f_in, streamVars, batchVars, enrichVars, parseVars>>

CacheNext == CacheTick \/ CrawlBegin \/ CrawlFetched \/ SearchAggregate

SpecCache == CacheInit /\ [][CacheNext]_vars

\* a call has returned
CacheCallEnded == f_in.fn = "cache" /\ f_out.pc = "idle" /\ f_out.call.kind # "none"

\* C29: filtering, dedupe-merge and enrichment of a search_jobs call leave the
\* records stored in the crawler's cache as the crawler parsed them, so that a
\* search_jobs call answered from the cache returns what it would return for
\* the records as they were parsed
C29_CoreLeavesCacheUnchanged ==
  f_in.fn = "cache" =>
    /\ f_out.has_cache => ValuesOf(f_out.cache, f_out.heap) = f_out.parsed
    /\ (CacheCallEnded /\ f_out.call.kind = "search" /\ ~f_out.call.enrich) =>
         f_out.result = SearchOnFresh(f_out.parsed, f_out.call)

====
